---------------------------- MODULE Spec2Model ----------------------------
(***************************************************************************)
(* mapflow backend: the ingestion pipeline (upload, import worker, startup *)
(* reconciliation) and the publication registry over the catalog tables    *)
(* files, published_files and dataset_columns.                             *)
(*                                                                         *)
(* Strings whose characters the code inspects (column names, slugs) are    *)
(* sequences of one-character strings.  Every handler takes the single     *)
(* connection mutex (Arc<Mutex<duckdb::Connection>>): a handler that holds *)
(* it from its first to its last statement is one action; the import       *)
(* worker, which can be cut by a process stop between two autocommitted    *)
(* statements, is one action per statement and holds `lock` meanwhile.     *)
(***************************************************************************)
EXTENDS Integers, Sequences, FiniteSets, TLC

\* ------------------------------------------------------------------ bounds

\* Number of distinct values create_id can return.
NumIds == 2
\* Upload requests accepted over a run (caps the run, not the program).
MaxUploads == 2
\* Process stops (each followed by a startup) over a run.
MaxCrashes == 1

\* ------------------------------------------------------- character helpers

\* Option<T>: None is the empty sequence, Some(x) the one-element sequence.
None == << >>
Some(x) == << x >>
IsSome(o) == o # << >>
Unwrap(o) == o[1]

LowerSeq ==
  << "a", "b", "c", "d", "e", "f", "g", "h", "i", "j", "k", "l", "m",
     "n", "o", "p", "q", "r", "s", "t", "u", "v", "w", "x", "y", "z" >>

UpperSeq ==
  << "A", "B", "C", "D", "E", "F", "G", "H", "I", "J", "K", "L", "M",
     "N", "O", "P", "Q", "R", "S", "T", "U", "V", "W", "X", "Y", "Z" >>

DigitSeq == << "0", "1", "2", "3", "4", "5", "6", "7", "8", "9" >>

Range(s) == { s[i] : i \in DOMAIN s }

\* char::is_ascii_alphabetic
IsAsciiAlphabetic(c) == c \in Range(LowerSeq) \cup Range(UpperSeq)

\* char::is_ascii_alphanumeric
IsAsciiAlphanumeric(c) == IsAsciiAlphabetic(c) \/ c \in Range(DigitSeq)

\* char::to_ascii_lowercase
ToAsciiLowercaseChar(c) ==
  IF c \in Range(UpperSeq)
    THEN LowerSeq[CHOOSE i \in DOMAIN UpperSeq : UpperSeq[i] = c]
    ELSE c

\* str::to_ascii_lowercase
ToAsciiLowercase(s) == [ i \in DOMAIN s |-> ToAsciiLowercaseChar(s[i]) ]

\* char::is_whitespace, for the characters the inputs use
Whitespace == { " ", "\t", "\n" }

RECURSIVE TrimStartMatching(_, _)
TrimStartMatching(s, set) ==
  IF s # << >> /\ Head(s) \in set THEN TrimStartMatching(Tail(s), set) ELSE s

RECURSIVE TrimEndMatching(_, _)
TrimEndMatching(s, set) ==
  IF s # << >> /\ s[Len(s)] \in set
    THEN TrimEndMatching(SubSeq(s, 1, Len(s) - 1), set)
    ELSE s

\* str::trim
Trim(s) == TrimEndMatching(TrimStartMatching(s, Whitespace), Whitespace)

\* str::trim_matches('_')
TrimMatchesUnderscore(s) ==
  TrimEndMatching(TrimStartMatching(s, { "_" }), { "_" })

\* str::contains("__")
ContainsDoubleUnderscore(s) ==
  \E i \in 1 .. (Len(s) - 1) : s[i] = "_" /\ s[i + 1] = "_"

\* str::replace("__", "_"): one left-to-right pass over non-overlapping matches
RECURSIVE ReplaceDoubleUnderscore(_)
ReplaceDoubleUnderscore(s) ==
  IF Len(s) < 2 THEN s
  ELSE IF s[1] = "_" /\ s[2] = "_"
    THEN << "_" >> \o ReplaceDoubleUnderscore(SubSeq(s, 3, Len(s)))
    ELSE << s[1] >> \o ReplaceDoubleUnderscore(Tail(s))

\* while out.contains("__") { out = out.replace("__", "_") }
RECURSIVE CollapseUnderscores(_)
CollapseUnderscores(s) ==
  IF ContainsDoubleUnderscore(s)
    THEN CollapseUnderscores(ReplaceDoubleUnderscore(s))
    ELSE s

\* Decimal rendering of a non-negative integer ({ordinal}, {suffix} in format!)
RECURSIVE DecimalString(_)
DecimalString(n) ==
  IF n < 10 THEN << DigitSeq[n + 1] >>
  ELSE DecimalString(n \div 10) \o << DigitSeq[(n % 10) + 1] >>

\* Variant: a prefix that starts with a digit.
ColPrefixDigit == << "0", "_" >>

\* format!("col_{out}")
ColPrefix == << "c", "o", "l", "_" >>

KEYWORDS ==
  { << "s", "e", "l", "e", "c", "t" >>,
    << "f", "r", "o", "m" >>,
    << "w", "h", "e", "r", "e" >>,
    << "g", "r", "o", "u", "p" >>,
    << "o", "r", "d", "e", "r" >>,
    << "b", "y" >>,
    << "l", "i", "m", "i", "t" >>,
    << "o", "f", "f", "s", "e", "t" >>,
    << "j", "o", "i", "n" >>,
    << "t", "a", "b", "l", "e" >> }

\* The per-character map of normalize_column_name's loop.
NormalizeChar(ch) ==
  IF IsAsciiAlphanumeric(ch) \/ ch = "_" THEN ToAsciiLowercaseChar(ch) ELSE "_"

\* normalize_column_name
NormalizeColumnName(name) ==
  LET trimmed == Trim(name) IN
  IF trimmed = << >> THEN None
  ELSE
    LET mapped    == [ i \in DOMAIN trimmed |-> NormalizeChar(trimmed[i]) ]
        collapsed == CollapseUnderscores(mapped)
        out       == TrimMatchesUnderscore(collapsed)
    IN IF out = << >> THEN None
       ELSE
         LET first    == Head(out)
             prefixed == IF IsAsciiAlphabetic(first) \/ first = "_"
                           THEN out
                           ELSE ColPrefix \o out
         IN IF prefixed \in KEYWORDS
              THEN Some(ColPrefix \o prefixed)
              ELSE Some(prefixed)

\* ------------------------------------------------------------ the inputs

Ids == 1 .. NumIds

\* create_id: 3 random bytes, hex encoded (6 characters)
IdString(id) == << "0", "0", "0", "0", "0", DigitSeq[id + 1] >>

FID  == << "f", "i", "d" >>
GEOM == << "g", "e", "o", "m" >>

Col(name, type) == [ name |-> name, type |-> type ]

GeomCol == Col(GEOM, "GEOMETRY")

\* What an uploaded file holds, as far as the server looks at it: the verdict
\* of the validator (validate_shapefile_zip / validate_geojson), whether
\* ST_Read can read it, the CRS ST_Read_Meta reports, and the columns ST_Read
\* yields (one geometry column, property names distinct ignoring case).
Payload(validation, readable, crs, cols) ==
  [ validation |-> validation, readable |-> readable, crs |-> crs,
    cols |-> cols ]

\* validation: Ok(()) is None, Err(message) is Some(message)
InvalidPayload == Payload(Some("Invalid GeoJSON"), FALSE, None, << >>)

UnreadablePayload == Payload(None, FALSE, None, << >>)

Payloads ==
  { InvalidPayload,
    UnreadablePayload,
    \* one plain property, in upper case
    Payload(None, TRUE, Some("EPSG:4326"),
            << Col(<< "N" >>, "VARCHAR"), GeomCol >>),
    \* a property whose name is a keyword, of a narrow integer type
    Payload(None, TRUE, None,
            << Col(<< "b", "y" >>, "SMALLINT"), GeomCol >>),
    \* two names with the same normal form
    Payload(None, TRUE, None,
            << Col(<< "a", " ", "b" >>, "VARCHAR"),
               Col(<< "a", "-", "b" >>, "UINTEGER"), GeomCol >>),
    \* a name whose normal form is the name of a later column
    Payload(None, TRUE, None,
            << Col(<< "a", " ", "b" >>, "VARCHAR"),
               Col(<< "a", "_", "b" >>, "VARCHAR"), GeomCol >>),
    \* a geometry column not called geom, a name with no normal form
    Payload(None, TRUE, Some("EPSG:3857"),
            << Col(<< "s", "h", "p" >>, "GEOMETRY"),
               Col(<< "-" >>, "DATE") >>) }

\* The requested slug of a publish request (PublishRequest.slug).
SlugInputs ==
  { None,
    Some(<< " ", "m" >>),
    Some(<< "m", "!" >>),
    Some(IdString(1)) }

Clients == { "c1", "c2" }

\* ------------------------------------------------------------- the state

VARIABLES
  phase,            \* "serving", or "starting" after a process stop
  files,            \* table files: id -> row (status "absent": no row)
  published,        \* table published_files: set of rows
  tables,           \* per-dataset tables layer_<id>: id -> columns, or NoTable
  dataset_columns,  \* table dataset_columns: set of rows
  disk,             \* the upload directory: id -> payload stored there
  task,             \* the spawned import task of each id: its position and locals
  lock,             \* the connection mutex: Free, or Holder(id) while id is imported
  resp,             \* the response of the last handled request
  waiting,          \* publish requests received and waiting for the mutex
  answered,         \* the response each waiting client's request got
  race,             \* "on" once two publish requests waited together,
                    \* "broken" once an unpublish came between them
  faults,           \* SQL statements made to fail so far
  uploads,          \* upload requests handled so far
  crashes           \* process stops so far

\* The state beside the catalog: what the other parts of the server keep.
VARIABLES
  stream,           \* the multipart body being written by upload_file
  sessions,         \* table sessions: set of rows
  now,              \* the clock, in ticks
  kept,             \* what the callers of the session store last saved per id
  store_resp,       \* what the last session store call returned
  users,            \* table users: set of rows
  system_settings,  \* table system_settings: set of rows
  dummy_hash,       \* the OnceLock DUMMY_HASH of authenticate: None until set
  auth_resp,        \* what the last authenticate, login or init call returned
  init_waiting,     \* init requests that passed validation and wait for the mutex
  loader,           \* per thread: its call of ensure_spatial_extension
  install_lock,     \* SPATIAL_INSTALL_LOCK: NoThread or the thread holding the guard
  installed,        \* the extension is in the engine's local extension cache
  norm,             \* a column name and its normalizations
  tile_reply,       \* status, content type and body of the last tile response
  zip,              \* an archive and the verdict of validate_shapefile_zip on it
  txn,             \* the shared connection is inside a transaction
  conn,            \* the connection mutex of the node-graph server's Database
  tile_call        \* each thread's call of Database generate_tile

\* The catalog, its import tasks and its requests.
core ==
  << phase, files, published, tables, dataset_columns, disk, task, lock, resp,
     waiting, answered, race, faults, uploads, crashes >>

streamVars == << stream >>

storeVars == << sessions, now, kept, store_resp >>

authVars == << users, system_settings, dummy_hash, auth_resp, init_waiting >>

loaderVars == << loader, install_lock, installed >>

normVars == << norm >>

tileVars == << tile_reply >>

zipVars == << zip >>

txnVars == << txn >>

nodeVars == << conn, tile_call >>

extra == << streamVars, storeVars, authVars, loaderVars, normVars, tileVars, zipVars, txnVars, nodeVars >>

vars == << core, extra >>

otherThanStream == << storeVars, authVars, loaderVars, normVars, tileVars, zipVars, txnVars, nodeVars >>

otherThanStore == << streamVars, authVars, loaderVars, normVars, tileVars, zipVars, txnVars, nodeVars >>

otherThanAuthAndStore == << streamVars, loaderVars, normVars, tileVars, zipVars, txnVars, nodeVars >>

otherThanLoader == << streamVars, storeVars, authVars, normVars, tileVars, zipVars, txnVars, nodeVars >>

otherThanNorm == << streamVars, storeVars, authVars, loaderVars, tileVars, zipVars, txnVars, nodeVars >>

otherThanTile == << streamVars, storeVars, authVars, loaderVars, normVars, zipVars, txnVars, nodeVars >>

otherThanZip == << streamVars, storeVars, authVars, loaderVars, normVars, tileVars, txnVars, nodeVars >>

otherThanTxn == << streamVars, storeVars, authVars, loaderVars, normVars, tileVars, zipVars, nodeVars >>

otherThanNode == << streamVars, storeVars, authVars, loaderVars, normVars, tileVars, zipVars, txnVars >>

\* The mutex: Free, or held by the import task of an id.
Free == << >>
Holder(id) == << id >>

NoFile ==
  [ status |-> "absent", crs |-> None, table_name |-> None, error |-> None,
    is_public |-> FALSE ]

FileRow(status, error) ==
  [ status |-> status, crs |-> None, table_name |-> None, error |-> error,
    is_public |-> FALSE ]

NoTable == << >>

TableName(id) == << "l", "a", "y", "e", "r", "_" >> \o IdString(id)

NoTask ==
  [ pc |-> "none", detected_crs |-> None, columns |-> << >>, i |-> 0,
    used |-> { }, normalized |-> << >>, mvt_type |-> "", err |-> None,
    sql_failed |-> FALSE ]

NoResp == [ op |-> "none", id |-> 0, code |-> 0, info |-> None ]

Resp(op, id, code, info) == [ op |-> op, id |-> id, code |-> code, info |-> info ]

NoReq == [ id |-> 0, slug |-> None ]

NoAnswer == [ req |-> NoReq, resp |-> NoResp ]

PROCESSING_RECONCILIATION_ERROR == "Server restarted during processing"

\* No upload body is being written.
NoStream ==
  [ id |-> 0, chunks |-> << >>, size |-> 0, written |-> None, p |-> InvalidPayload ]

\* tower_sessions Id values the callers use.
SessionIds == 1 .. 2

NoCall == [ op |-> "none", id |-> 0, result |-> None ]

InitStore ==
  /\ sessions = { }
  /\ now = 0
  /\ kept = [ id \in SessionIds |-> None ]
  /\ store_resp = NoCall

NoAuthCall ==
  [ op |-> "none", code |-> 0, result |-> "", verified |-> << >>, hashed |-> 0 ]

NoInit == [ username |-> "", password |-> << >> ]

InitAuth ==
  /\ users = { }
  /\ system_settings = { }
  /\ dummy_hash = None
  /\ auth_resp = NoAuthCall
  /\ init_waiting = [ c \in Clients |-> NoInit ]

\* Threads of the process that open a database.
Threads == { "t1", "t2" }

NoThread == "none"

NoLoad ==
  [ pc |-> "idle", attempt |-> 0, install_ok |-> FALSE, errors |-> << >>,
    installs |-> 0, sleeps |-> 0, waited |-> FALSE, rechecked |-> "no",
    result |-> "" ]

InitLoader ==
  /\ loader = [ t \in Threads |-> NoLoad ]
  /\ install_lock = NoThread
  /\ installed = FALSE

NoZip == [ archive |-> << >>, validated |-> FALSE, result |-> None ]

\* std::sync::Mutex<Connection>: who holds it, and whether a holder panicked.
NoHolder == [ holder |-> NoThread, poisoned |-> FALSE ]

NoTileCall == [ pc |-> "idle", fields |-> << >>, result |-> "" ]

NoReply == [ code |-> 0, content_type |-> "", body |-> << >> ]

NoNorm == [ name |-> << >>, applied |-> 0, once |-> None, twice |-> None ]

InitExtra ==
  /\ stream = NoStream
  /\ InitStore
  /\ InitAuth
  /\ InitLoader
  /\ norm = NoNorm
  /\ tile_reply = NoReply
  /\ zip = NoZip
  /\ txn = FALSE
  /\ conn = NoHolder
  /\ tile_call = [ t \in Threads |-> NoTileCall ]

Init ==
  /\ phase = "serving"
  /\ files = [ id \in Ids |-> NoFile ]
  /\ published = { }
  /\ tables = [ id \in Ids |-> NoTable ]
  /\ dataset_columns = { }
  /\ disk = [ id \in Ids |-> InvalidPayload ]
  /\ task = [ id \in Ids |-> NoTask ]
  /\ lock = Free
  /\ resp = NoResp
  /\ waiting = [ c \in Clients |-> NoReq ]
  /\ answered = [ c \in Clients |-> NoAnswer ]
  /\ race = "none"
  /\ faults = 0
  /\ uploads = 0
  /\ crashes = 0
  /\ InitExtra

\* A handler can run: the process serves and the mutex is not held.
CanLock == phase = "serving" /\ lock = Free

\* ---------------------------------------------------------------- upload

\* Variant: the validator's verdict is not looked at.
RejectedNever(p) == FALSE

\* if let Err(message) = validation
Rejected(p) == IsSome(p.validation)

\* upload_file after the file is written: the validator's verdict, the INSERT
\* into files (which fails on a primary key collision) and the spawned task.
UploadFile(id, p) ==
  /\ CanLock
  /\ uploads < MaxUploads
  /\ uploads' = uploads + 1
  /\ IF files[id].status # "absent"
       THEN \* create_id drew an id in use: File::create truncates the stored
            \* file when the names are equal; INSERT fails: .map_err(internal_error)?
            /\ \E same_name \in BOOLEAN :
                 disk' = IF same_name THEN [ disk EXCEPT ![id] = p ] ELSE disk
            /\ resp' = Resp("upload", id, 500, None)
            /\ UNCHANGED << files, task >>
       ELSE IF Rejected(p)
         THEN /\ disk' = [ disk EXCEPT ![id] = p ]
              /\ files' = [ files EXCEPT ![id] = FileRow("failed", p.validation) ]
              /\ resp' = Resp("upload", id, 400, p.validation)
              /\ UNCHANGED task
         ELSE /\ disk' = [ disk EXCEPT ![id] = p ]
              /\ files' = [ files EXCEPT ![id] = FileRow("uploaded", None) ]
              /\ task' = [ task EXCEPT ![id] = [ NoTask EXCEPT !.pc = "spawned" ] ]
              /\ resp' = Resp("upload", id, 201, None)
  /\ UNCHANGED << phase, published, tables, dataset_columns, lock, waiting,
                  answered, race, faults, crashes, extra >>

Upload == \E id \in Ids, p \in Payloads : UploadFile(id, p)


\* ---------------------------------------------------- the engine's tables

\* information_schema.columns of a table, ORDER BY ordinal_position
ColumnsOf(t) ==
  [ k \in DOMAIN t |-> [ name |-> t[k].name, type |-> t[k].type, ordinal |-> k ] ]

\* Identifiers are case-insensitive in the engine.
HasColumn(t, name) ==
  \E k \in DOMAIN t : ToAsciiLowercase(t[k].name) = ToAsciiLowercase(name)

\* ALTER TABLE .. RENAME COLUMN old TO new succeeds unless new names a column.
CanRename(t, old, new) == ~ HasColumn(t, new)

RenameColumn(t, old, new) ==
  [ k \in DOMAIN t |-> IF t[k].name = old THEN Col(new, t[k].type) ELSE t[k] ]

\* ALTER TABLE .. ALTER COLUMN name SET DATA TYPE type
SetDataType(t, name, type) ==
  [ k \in DOMAIN t |->
      IF ToAsciiLowercase(t[k].name) = ToAsciiLowercase(name)
        THEN Col(t[k].name, type) ELSE t[k] ]

\* CREATE TABLE .. AS SELECT row_number() OVER ()::BIGINT AS fid, * FROM ST_Read
CreatedTable(p) == << Col(FID, "BIGINT") >> \o p.cols

MetaRow(id, normalized, original, ordinal, mvt_type) ==
  [ source_id |-> id, normalized_name |-> normalized, original_name |-> original,
    ordinal |-> ordinal, mvt_type |-> mvt_type ]

\* INSERT INTO dataset_columns: the primary key is (source_id, normalized_name)
InsertMeta(rows, row) ==
  IF \E r \in rows : r.source_id = row.source_id
                     /\ r.normalized_name = row.normalized_name
    THEN rows
    ELSE rows \cup { row }

\* ------------------------------------------------------ the import worker

\* The name is already alphanumeric/underscore and starts with a letter or _.
IsPlainIdentifier(name) ==
  /\ \A k \in DOMAIN name : IsAsciiAlphanumeric(name[k]) \/ name[k] = "_"
  /\ name # << >>
  /\ (IsAsciiAlphabetic(Head(name)) \/ Head(name) = "_")

IsReserved(name) == ToAsciiLowercase(name) \in { FID, GEOM }

ColOrdinal(ordinal) == ColPrefix \o DecimalString(ordinal)

\* The normalized name before the collision suffix.
InitialNormalized(name, ordinal) ==
  LET lower == ToAsciiLowercase(name)
      first == IF IsReserved(name) THEN lower
               ELSE IF IsPlainIdentifier(name) THEN lower
               ELSE LET n == NormalizeColumnName(name)
                    IN IF IsSome(n) THEN Unwrap(n) ELSE ColOrdinal(ordinal)
  IN IF ~ IsReserved(name) /\ first = << >> THEN ColOrdinal(ordinal) ELSE first

\* Variant: the first suffix tried is 3.
RECURSIVE FreeCandidateFromThree(_, _, _, _)
FreeCandidateFromThree(normalized, candidate, suffix, used) ==
  IF candidate \in used
    THEN FreeCandidateFromThree(normalized,
                                normalized \o << "_" >> \o DecimalString(suffix + 1),
                                suffix + 1, used)
    ELSE candidate

\* while used.contains(&candidate) { candidate = "{normalized}_{suffix}"; suffix += 1 }
RECURSIVE FreeCandidate(_, _, _, _)
FreeCandidate(normalized, candidate, suffix, used) ==
  IF candidate \in used
    THEN FreeCandidate(normalized, normalized \o << "_" >> \o DecimalString(suffix),
                       suffix + 1, used)
    ELSE candidate

NormalizedFor(name, ordinal, used) ==
  LET n == InitialNormalized(name, ordinal)
  IN IF IsReserved(name) THEN n ELSE FreeCandidate(n, n, 2, used)

\* The logical type recorded for a property column and whether it needs ALTER.
MvtType(name, data_type) ==
  LET lower == ToAsciiLowercase(name) IN
  IF lower = GEOM THEN "GEOMETRY"
  ELSE IF lower = FID THEN "BIGINT"
  ELSE IF data_type \in { "VARCHAR", "BOOLEAN", "DOUBLE", "FLOAT", "BIGINT", "INTEGER" }
    THEN data_type
  ELSE IF data_type \in { "SMALLINT", "TINYINT" } THEN "INTEGER"
  ELSE IF data_type \in { "UBIGINT", "UINTEGER", "USMALLINT", "UTINYINT" } THEN "BIGINT"
  ELSE "VARCHAR"

NeedsCoercion(name, data_type) ==
  /\ ~ IsReserved(name)
  /\ data_type \notin { "VARCHAR", "BOOLEAN", "DOUBLE", "FLOAT", "BIGINT", "INTEGER" }


SetTask(id, t) == task' = [ task EXCEPT ![id] = t ]

\* Variant: the UPDATE to processing is lost.
MarkProcessingDropped(fs, id) == fs

\* UPDATE files SET status = 'processing' WHERE id = ?
MarkProcessing(fs, id) ==
  IF fs[id].status = "absent" THEN fs
  ELSE [ fs EXCEPT ![id].status = "processing" ]

\* Variant: the UPDATE to ready is lost.
MarkReadyDropped(fs, id) == fs

\* UPDATE files SET status = 'ready' WHERE id = ?
MarkReady(fs, id) ==
  IF fs[id].status = "absent" THEN fs
  ELSE [ fs EXCEPT ![id].status = "ready" ]

\* Variant: the failure is recorded without its message.
MarkFailedNoError(fs, id, e) ==
  IF fs[id].status = "absent" THEN fs
  ELSE [ fs EXCEPT ![id].status = "failed" ]

\* UPDATE files SET status = 'failed', error = ? WHERE id = ?
MarkFailed(fs, id, e) ==
  IF fs[id].status = "absent" THEN fs
  ELSE [ fs EXCEPT ![id].status = "failed", ![id].error = Some(e) ]

\* UPDATE files SET crs = ? WHERE id = ?
RecordCrs(fs, id, crs) ==
  IF fs[id].status = "absent" THEN fs ELSE [ fs EXCEPT ![id].crs = Some(crs) ]

\* Variant: the table name is never recorded.
RecordTableNameDropped(fs, id) == fs

\* UPDATE files SET table_name = ? WHERE id = ?
RecordTableName(fs, id) ==
  IF fs[id].status = "absent" THEN fs
  ELSE [ fs EXCEPT ![id].table_name = Some(TableName(id)) ]

\* DELETE FROM dataset_columns WHERE source_id = ?
ClearMeta(rows, id) == { r \in rows : r.source_id # id }

\* The task's first block: it takes the mutex and marks the row processing.
WorkerSetProcessing(id) ==
  /\ CanLock
  /\ task[id].pc = "spawned"
  /\ files' = MarkProcessing(files, id)
  /\ SetTask(id, [ task[id] EXCEPT !.pc = "queued" ])
  /\ UNCHANGED << phase, published, tables, dataset_columns, disk, lock, resp,
                  waiting, answered, race, faults, uploads, crashes, extra >>

\* import_spatial_data takes the mutex and asks ST_Read_Meta for the CRS.
ImportBegin(id) ==
  /\ CanLock
  /\ task[id].pc = "queued"
  /\ lock' = Holder(id)
  /\ SetTask(id, [ task[id] EXCEPT
                     !.pc = "crs",
                     !.detected_crs = IF disk[id].readable THEN disk[id].crs ELSE None ])
  /\ UNCHANGED << phase, files, published, tables, dataset_columns, disk, resp,
                  waiting, answered, race, faults, uploads, crashes, extra >>

Importing(id, pc) == phase = "serving" /\ lock = Holder(id) /\ task[id].pc = pc

\* import_spatial_data returns Err(e): the guard drops, the mutex is free.
ImportReturnsErr(id, e) ==
  /\ SetTask(id, [ task[id] EXCEPT !.pc = "err", !.err = Some(e),
                                   !.sql_failed = TRUE ])
  /\ lock' = Free

ImportUpdateCrs(id) ==
  /\ Importing(id, "crs")
  /\ files' = IF IsSome(task[id].detected_crs)
                THEN RecordCrs(files, id, Unwrap(task[id].detected_crs))
                ELSE files
  /\ SetTask(id, [ task[id] EXCEPT !.pc = "drop" ])
  /\ UNCHANGED << phase, published, tables, dataset_columns, disk, lock, resp,
                  waiting, answered, race, faults, uploads, crashes, extra >>

ImportDropTable(id) ==
  /\ Importing(id, "drop")
  /\ tables' = [ tables EXCEPT ![id] = NoTable ]
  /\ SetTask(id, [ task[id] EXCEPT !.pc = "create" ])
  /\ UNCHANGED << phase, files, published, dataset_columns, disk, lock, resp,
                  waiting, answered, race, faults, uploads, crashes, extra >>

ImportCreateTable(id) ==
  /\ Importing(id, "create")
  /\ IF disk[id].readable
       THEN /\ tables' = [ tables EXCEPT ![id] = CreatedTable(disk[id]) ]
            /\ SetTask(id, [ task[id] EXCEPT !.pc = "set_table" ])
            /\ UNCHANGED lock
       ELSE /\ ImportReturnsErr(id, "Spatial import failed")
            /\ UNCHANGED tables
  /\ UNCHANGED << phase, files, published, dataset_columns, disk, resp,
                  waiting, answered, race, faults, uploads, crashes, extra >>

ImportSetTableName(id) ==
  /\ Importing(id, "set_table")
  /\ files' = RecordTableName(files, id)
  /\ SetTask(id, [ task[id] EXCEPT !.pc = "read_cols" ])
  /\ UNCHANGED << phase, published, tables, dataset_columns, disk, lock, resp,
                  waiting, answered, race, faults, uploads, crashes, extra >>

\* The first information_schema query, then the DELETE of prior metadata.
ImportClearMetadata(id) ==
  /\ Importing(id, "read_cols")
  /\ dataset_columns' = ClearMeta(dataset_columns, id)
  /\ SetTask(id, [ task[id] EXCEPT !.pc = "geom", !.columns = ColumnsOf(tables[id]),
                                   !.i = 1, !.used = { FID } ])
  /\ UNCHANGED << phase, files, published, tables, disk, lock, resp,
                  waiting, answered, race, faults, uploads, crashes, extra >>

\* Variant: geometry columns keep the name the driver gave them.
NeedsGeomRenameNever(c) == FALSE

\* eq_ignore_ascii_case("GEOMETRY") && name != "geom"
NeedsGeomRename(c) == c.type = "GEOMETRY" /\ c.name # GEOM

\* One iteration of the loop that renames geometry columns to geom.
ImportGeomRename(id) ==
  /\ Importing(id, "geom")
  /\ task[id].i <= Len(task[id].columns)
  /\ LET c == task[id].columns[task[id].i] IN
     IF NeedsGeomRename(c)
       THEN IF CanRename(tables[id], c.name, GEOM)
              THEN /\ tables' = [ tables EXCEPT ![id] = RenameColumn(@, c.name, GEOM) ]
                   /\ SetTask(id, [ task[id] EXCEPT !.i = @ + 1 ])
                   /\ UNCHANGED lock
              ELSE /\ ImportReturnsErr(id, "Failed to normalize geometry column")
                   /\ UNCHANGED tables
       ELSE /\ SetTask(id, [ task[id] EXCEPT !.i = @ + 1 ])
            /\ UNCHANGED << tables, lock >>
  /\ UNCHANGED << phase, files, published, dataset_columns, disk, resp,
                  waiting, answered, race, faults, uploads, crashes, extra >>

\* The second information_schema query, after the geometry rename.
ImportRefreshColumns(id) ==
  /\ Importing(id, "geom")
  /\ task[id].i > Len(task[id].columns)
  /\ SetTask(id, [ task[id] EXCEPT !.pc = "normalize",
                                   !.columns = ColumnsOf(tables[id]), !.i = 1 ])
  /\ UNCHANGED << phase, files, published, tables, dataset_columns, disk, lock,
                  resp, waiting, answered, race, faults, uploads, crashes, extra >>

\* Second loop, first part: the normalized name and the RENAME when it differs.
ImportNormalizeColumn(id) ==
  /\ Importing(id, "normalize")
  /\ LET c          == task[id].columns[task[id].i]
         lower      == ToAsciiLowercase(c.name)
         normalized == NormalizedFor(c.name, c.ordinal, task[id].used)
         next       == [ task[id] EXCEPT !.pc = "coerce",
                                         !.normalized = normalized,
                                         !.used = @ \cup { normalized } ]
     IN IF ~ IsReserved(c.name) /\ normalized # lower
          THEN IF CanRename(tables[id], c.name, normalized)
                 THEN /\ tables' = [ tables EXCEPT ![id] =
                                       RenameColumn(@, c.name, normalized) ]
                      /\ SetTask(id, next)
                      /\ UNCHANGED lock
                 ELSE /\ ImportReturnsErr(id, "Failed to normalize column name")
                      /\ UNCHANGED tables
          ELSE /\ SetTask(id, next)
               /\ UNCHANGED << tables, lock >>
  /\ UNCHANGED << phase, files, published, dataset_columns, disk, resp,
                  waiting, answered, race, faults, uploads, crashes, extra >>

\* Second loop, second part: the logical type and the ALTER when it differs.
ImportCoerceColumn(id) ==
  /\ Importing(id, "coerce")
  /\ LET c   == task[id].columns[task[id].i]
         mvt == MvtType(c.name, c.type)
     IN /\ tables' = IF NeedsCoercion(c.name, c.type)
                       THEN [ tables EXCEPT ![id] =
                                SetDataType(@, task[id].normalized, mvt) ]
                       ELSE tables
        /\ SetTask(id, [ task[id] EXCEPT !.pc = "record", !.mvt_type = mvt ])
  /\ UNCHANGED << phase, files, published, dataset_columns, disk, lock, resp,
                  waiting, answered, race, faults, uploads, crashes, extra >>

\* Variant: a metadata row is recorded for fid and geom too.
RecordedMetaAll(rows, id, c, normalized, mvt_type) ==
  InsertMeta(rows, MetaRow(id, normalized, c.name, c.ordinal, mvt_type))

\* The rows import_spatial_data inserts for column c (none for fid and geom).
RecordedMeta(rows, id, c, normalized, mvt_type) ==
  IF IsReserved(c.name) THEN rows
  ELSE InsertMeta(rows, MetaRow(id, normalized, c.name, c.ordinal, mvt_type))

\* Second loop, last part: the metadata row; after the last column, Ok(()).
ImportRecordColumn(id) ==
  /\ Importing(id, "record")
  /\ LET c    == task[id].columns[task[id].i]
         last == task[id].i = Len(task[id].columns)
     IN /\ dataset_columns' =
             RecordedMeta(dataset_columns, id, c, task[id].normalized,
                          task[id].mvt_type)
        /\ SetTask(id, [ task[id] EXCEPT !.pc = IF last THEN "ok" ELSE "normalize",
                                         !.i = @ + 1 ])
        /\ lock' = IF last THEN Free ELSE lock
  /\ UNCHANGED << phase, files, published, tables, disk, resp,
                  waiting, answered, race, faults, uploads, crashes, extra >>

\* The task's last block: the terminal status, by the import's result.
WorkerFinish(id) ==
  /\ CanLock
  /\ task[id].pc \in { "ok", "err" }
  /\ files' = IF task[id].pc = "ok"
                THEN MarkReady(files, id)
                ELSE MarkFailed(files, id, Unwrap(task[id].err))
  /\ SetTask(id, [ task[id] EXCEPT !.pc = "done" ])
  /\ UNCHANGED << phase, published, tables, dataset_columns, disk, lock, resp,
                  waiting, answered, race, faults, uploads, crashes, extra >>


\* --------------------------------------------------- publication registry

MaxSlugLen == 100

IsSlugChar(c) == IsAsciiAlphanumeric(c) \/ c = "-" \/ c = "_"

\* validate_slug: [ok |-> TRUE, slug] or [ok |-> FALSE, error]
ValidateSlug(slug) ==
  LET t == Trim(slug) IN
  IF t = << >> THEN [ ok |-> FALSE, slug |-> t, error |-> "Slug cannot be empty" ]
  ELSE IF Len(t) > MaxSlugLen
    THEN [ ok |-> FALSE, slug |-> t, error |-> "Slug must be 100 characters or less" ]
  ELSE IF ~ \A k \in DOMAIN t : IsSlugChar(t[k])
    THEN [ ok |-> FALSE, slug |-> t,
           error |-> "Slug can only contain letters, numbers, hyphens, and underscores" ]
  ELSE [ ok |-> TRUE, slug |-> t, error |-> "" ]

PubRow(id, slug) == [ file_id |-> id, slug |-> slug ]

\* str::contains
Contains(s, t) ==
  \E k \in 0 .. Len(s) - Len(t) : SubSeq(s, k + 1, k + Len(t)) = t

\* The engine's message for a duplicate key, which names the key and its value:
\* Constraint Error: Duplicate key "<key>: <value>" violates <kind> constraint.
DuplicateKeyMessage(kind, key, value) ==
  << "C", "o", "n", "s", "t", "r", "a", "i", "n", "t", " ", "E", "r", "r",
     "o", "r", ":", " ", "D", "u", "p", "l", "i", "c", "a", "t", "e", " ",
     "k", "e", "y", " ", "\"" >>
  \o key \o << ":", " " >> \o value \o
  << "\"", " ", "v", "i", "o", "l", "a", "t", "e", "s", " " >>
  \o kind \o
  << " ", "c", "o", "n", "s", "t", "r", "a", "i", "n", "t", "." >>

PrimaryKeyKind == << "p", "r", "i", "m", "a", "r", "y", " ", "k", "e", "y" >>

UniqueKind == << "u", "n", "i", "q", "u", "e" >>

FileIdColumn == << "f", "i", "l", "e", "_", "i", "d" >>

SlugColumn == << "s", "l", "u", "g" >>

\* Variant: published_files without its primary key on file_id.
InsertPublishedNoKey(pub, id, slug) ==
  IF \E r \in pub : r.slug = slug
    THEN [ ok |-> FALSE, rows |-> pub,
           error |-> DuplicateKeyMessage(UniqueKind, SlugColumn, slug) ]
  ELSE [ ok |-> TRUE, error |-> << >>, rows |-> pub \cup { PubRow(id, slug) } ]

\* Variant: the engine checks the UNIQUE index on slug first.
InsertPublishedSlugFirst(pub, id, slug) ==
  IF \E r \in pub : r.slug = slug
    THEN [ ok |-> FALSE, rows |-> pub,
           error |-> DuplicateKeyMessage(UniqueKind, SlugColumn, slug) ]
  ELSE IF \E r \in pub : r.file_id = id
    THEN [ ok |-> FALSE, rows |-> pub,
           error |-> DuplicateKeyMessage(PrimaryKeyKind, FileIdColumn, IdString(id)) ]
  ELSE [ ok |-> TRUE, error |-> << >>, rows |-> pub \cup { PubRow(id, slug) } ]

\* INSERT INTO published_files: file_id is the primary key, slug is UNIQUE.
\* The engine checks the primary key index first.
InsertPublished(pub, id, slug) ==
  IF \E r \in pub : r.file_id = id
    THEN [ ok |-> FALSE, rows |-> pub,
           error |-> DuplicateKeyMessage(PrimaryKeyKind, FileIdColumn, IdString(id)) ]
  ELSE IF \E r \in pub : r.slug = slug
    THEN [ ok |-> FALSE, rows |-> pub,
           error |-> DuplicateKeyMessage(UniqueKind, SlugColumn, slug) ]
  ELSE [ ok |-> TRUE, error |-> << >>, rows |-> pub \cup { PubRow(id, slug) } ]

ConstraintError ==
  << "C", "o", "n", "s", "t", "r", "a", "i", "n", "t", " ", "E", "r", "r", "o", "r" >>

\* is_file_already_published
IsFileAlreadyPublished(err_msg) ==
  \/ Contains(err_msg, << "P", "R", "I", "M", "A", "R", "Y", " ", "K", "E", "Y" >>)
  \/ /\ Contains(err_msg, ConstraintError)
     /\ Contains(err_msg, FileIdColumn)

\* The second arm: the message is about the UNIQUE slug.
IsSlugInUse(err_msg) ==
  \/ Contains(err_msg, << "U", "N", "I", "Q", "U", "E" >>)
  \/ Contains(err_msg, SlugColumn) /\ Contains(err_msg, UniqueKind)

\* Variant: the is_public flag is never written.
SetPublicDropped(fs, id, flag) == fs

\* UPDATE files SET is_public = ? WHERE id = ?
SetPublic(fs, id, flag) ==
  IF fs[id].status = "absent" THEN fs ELSE [ fs EXCEPT ![id].is_public = flag ]

ExistingSlug(pub, id) ==
  IF \E r \in pub : r.file_id = id
    THEN Some((CHOOSE r \in pub : r.file_id = id).slug)
    ELSE None

Outcome(fs, pub, r) == [ files |-> fs, published |-> pub, resp |-> r ]

\* Variant: a failed File Record passes the status check.
StatusIsReadyOrFailed(status) == status \in { "ready", "failed" }

\* status != "ready", negated
StatusIsReady(status) == status = "ready"

\* publish_file: the catalog it leaves and the response it gives.
PublishFile(fs, pub, id, requested) ==
  IF fs[id].status = "absent"
    THEN Outcome(fs, pub, Resp("publish", id, 404, Some("File not found")))
  ELSE IF ~ StatusIsReady(fs[id].status)
    THEN Outcome(fs, pub, Resp("publish", id, 409, Some("File is not ready for publishing")))
  ELSE
    LET v == ValidateSlug(IF IsSome(requested) THEN Unwrap(requested) ELSE IdString(id))
    IN IF ~ v.ok THEN Outcome(fs, pub, Resp("publish", id, 400, Some(v.error)))
       ELSE
         LET ins == InsertPublished(pub, id, v.slug) IN
         IF ins.ok
           THEN \* UPDATE is_public, COMMIT
                Outcome(SetPublic(fs, id, TRUE), ins.rows,
                        Resp("publish", id, 200, Some(v.slug)))
         ELSE IF IsFileAlreadyPublished(ins.error)
           THEN \* ROLLBACK, then the existing slug is read for the message
                Outcome(fs, pub, Resp("publish", id, 409,
                                      Some(<< "File already published", ExistingSlug(pub, id) >>)))
         ELSE IF IsSlugInUse(ins.error)
           THEN \* ROLLBACK
                Outcome(fs, pub, Resp("publish", id, 400, Some("Slug already in use")))
           ELSE \* ROLLBACK, the engine's message is the answer
                Outcome(fs, pub, Resp("publish", id, 400, Some("engine error")))

\* Variant: the DELETE matches no row.
DeletePublishedNothing(fs, pub, id) == pub

\* DELETE FROM published_files pf JOIN files f .. WHERE pf.file_id = ? AND f.is_public
DeletePublished(fs, pub, id) ==
  { r \in pub : ~ (r.file_id = id /\ fs[id].is_public) }

\* Variant: rows_affected is not looked at.
UnpublishFileUnchecked(fs, pub, id) ==
  Outcome(SetPublic(fs, id, FALSE), DeletePublished(fs, pub, id),
          Resp("unpublish", id, 200, Some("File unpublished")))

\* unpublish_file: the catalog it leaves and the response it gives.
UnpublishFile(fs, pub, id) ==
  LET rest == DeletePublished(fs, pub, id) IN
  IF rest = pub
    THEN \* rows_affected == 0: ROLLBACK
         Outcome(fs, pub, Resp("unpublish", id, 404, Some("File not published")))
    ELSE Outcome(SetPublic(fs, id, FALSE), rest,
                 Resp("unpublish", id, 200, Some("File unpublished")))

\* A publish request handled as soon as it arrives.
Publish(id, requested) ==
  /\ CanLock
  /\ LET o == PublishFile(files, published, id, requested)
     IN /\ files' = o.files
        /\ published' = o.published
        /\ resp' = o.resp
  /\ UNCHANGED << phase, tables, dataset_columns, disk, task, lock, waiting,
                  answered, race, faults, uploads, crashes, extra >>

Unpublish(id) ==
  /\ CanLock
  /\ LET o == UnpublishFile(files, published, id)
     IN /\ files' = o.files
        /\ published' = o.published
        /\ resp' = o.resp
        /\ race' = IF race = "on" /\ o.resp.code = 200 THEN "broken" ELSE race
  /\ UNCHANGED << phase, tables, dataset_columns, disk, task, lock, waiting,
                  answered, faults, uploads, crashes, extra >>

\* A publish request arrives and waits for the mutex.
IssuePublish(c, id, requested) ==
  /\ phase = "serving"
  /\ waiting[c] = NoReq
  /\ answered[c] = NoAnswer
  /\ waiting' = [ waiting EXCEPT ![c] = [ id |-> id, slug |-> requested ] ]
  /\ race' = IF race = "none" /\ \E d \in Clients \ { c } : waiting[d] # NoReq
               THEN "on" ELSE race
  /\ UNCHANGED << phase, files, published, tables, dataset_columns, disk, task,
                  lock, resp, answered, faults, uploads, crashes, extra >>

\* A waiting publish request gets the mutex: publish_file runs to its end.
HandlePublish(c) ==
  /\ CanLock
  /\ waiting[c] # NoReq
  /\ LET o == PublishFile(files, published, waiting[c].id, waiting[c].slug)
     IN /\ files' = o.files
        /\ published' = o.published
        /\ resp' = o.resp
        /\ answered' = [ answered EXCEPT ![c] = [ req |-> waiting[c], resp |-> o.resp ] ]
  /\ waiting' = [ waiting EXCEPT ![c] = NoReq ]
  /\ UNCHANGED << phase, tables, dataset_columns, disk, task, lock, race,
                  faults, uploads, crashes, extra >>

\* ------------------------------------------------------ reading requests

MAX_Z == 22

\* Variant: the bound on x and y is off by one.
ValidateTileCoordsLoose(z, x, y) ==
  IF z < 0 \/ x < 0 \/ y < 0 \/ z > MAX_Z THEN FALSE
  ELSE LET max_xy == 2 ^ z IN ~ (x > max_xy \/ y > max_xy)

\* validate_tile_coords: TRUE for Ok(()), FALSE for the 400 answer.
\* z, x and y are i32; 1_i32 << z is only computed for 0 <= z <= 22.
ValidateTileCoords(z, x, y) ==
  IF z < 0 \/ x < 0 \/ y < 0 \/ z > MAX_Z THEN FALSE
  ELSE LET max_xy == 2 ^ z IN ~ (x >= max_xy \/ y >= max_xy)

\* Variant: the table name is used whatever the status.
ReadyTableAny(row) == row.table_name

\* table_name.filter(|_| status == "ready")
ReadyTable(row) == IF row.status = "ready" THEN row.table_name ELSE None

\* SELECT .. FROM dataset_columns WHERE source_id = ?
ColumnsMeta(cols, id) == { r \in cols : r.source_id = id }

\* A query on the per-dataset table of id, projecting the columns the metadata
\* names, is accepted when the table is there and has those columns.
TableQueryOk(tbls, cols, id, name) ==
  /\ tbls[id] # NoTable
  /\ name = TableName(id)
  /\ \A r \in ColumnsMeta(cols, id) : HasColumn(tbls[id], r.normalized_name)

\* The tile query also names fid and geom.
TileQueryOk(tbls, cols, id, name) ==
  /\ TableQueryOk(tbls, cols, id, name)
  /\ HasColumn(tbls[id], FID)
  /\ HasColumn(tbls[id], GEOM)

\* get_preview_meta; a failing bbox query is read as "no bbox" (.ok()).
GetPreviewMeta(fs, tbls, id) ==
  IF fs[id].status = "absent"
    THEN Resp("preview", id, 404, Some("File not found"))
  ELSE IF ReadyTable(fs[id]) = None
    THEN Resp("preview", id, 409, Some("File is not ready for preview"))
  ELSE IF TableQueryOk(tbls, { }, id, Unwrap(ReadyTable(fs[id])))
    THEN Resp("preview", id, 200, Some("bbox"))
    ELSE Resp("preview", id, 200, Some("no bbox"))

\* get_tile
GetTile(fs, tbls, cols, id, z, x, y) ==
  IF ~ ValidateTileCoords(z, x, y)
    THEN Resp("tile", id, 400, Some("Invalid tile coordinates"))
  ELSE IF fs[id].status = "absent"
    THEN Resp("tile", id, 404, Some("File not found"))
  ELSE IF ReadyTable(fs[id]) = None
    THEN Resp("tile", id, 409, Some("File is not ready for preview"))
  ELSE IF TileQueryOk(tbls, cols, id, Unwrap(ReadyTable(fs[id])))
    THEN Resp("tile", id, 200, Some("tile"))
    ELSE Resp("tile", id, 500, Some("Tile generation failed"))

\* get_feature_properties; found: the table has a row with the requested fid.
GetFeatureProperties(fs, tbls, cols, id, found) ==
  IF fs[id].status = "absent"
    THEN Resp("feature", id, 404, Some("File not found"))
  ELSE IF ReadyTable(fs[id]) = None
    THEN Resp("feature", id, 409, Some("File is not ready for preview"))
  ELSE IF ~ TableQueryOk(tbls, cols, id, Unwrap(ReadyTable(fs[id])))
    THEN Resp("feature", id, 500, None)
  ELSE IF ~ found
    THEN Resp("feature", id, 404, Some("Feature not found"))
    ELSE Resp("feature", id, 200, Some("properties"))

\* get_file_schema: reads dataset_columns only.
GetFileSchema(fs, id) ==
  IF fs[id].status = "absent"
    THEN Resp("schema", id, 404, Some("File not found"))
  ELSE IF fs[id].status # "ready"
    THEN Resp("schema", id, 409, Some("File is not ready"))
    ELSE Resp("schema", id, 200, Some("fields"))

\* Variant: the registration is looked up without its slug.
SlugOwnerAny(pub, slug) ==
  IF pub = { } THEN 0 ELSE (CHOOSE r \in pub : TRUE).file_id

\* SELECT file_id FROM published_files WHERE slug = ?  (0: no row)
SlugOwner(pub, slug) ==
  IF \E r \in pub : r.slug = slug
    THEN (CHOOSE r \in pub : r.slug = slug).file_id
    ELSE 0

\* get_public_tile
GetPublicTile(fs, pub, tbls, cols, slug, z, x, y) ==
  IF ~ ValidateTileCoords(z, x, y)
    THEN Resp("public_tile", 0, 400, Some("Invalid tile coordinates"))
  ELSE
    LET file_id == SlugOwner(pub, slug) IN
    IF file_id = 0
      THEN Resp("public_tile", 0, 404, Some("Public tile not found"))
    ELSE IF fs[file_id].status = "absent" \/ ~ fs[file_id].is_public
      THEN Resp("public_tile", file_id, 404, Some("File not found"))
    ELSE IF ReadyTable(fs[file_id]) = None
      THEN Resp("public_tile", file_id, 409, Some("File is not ready"))
    ELSE IF TileQueryOk(tbls, cols, file_id, Unwrap(ReadyTable(fs[file_id])))
      THEN Resp("public_tile", file_id, 200, Some("tile"))
      ELSE Resp("public_tile", file_id, 500, Some("Tile generation failed"))

\* A reading handler changes nothing but the response it gives.
Answer(r) ==
  /\ resp' = r
  /\ UNCHANGED << phase, files, published, tables, dataset_columns, disk, task,
                  lock, waiting, answered, race, faults, uploads, crashes, extra >>

PreviewRequest(id) == CanLock /\ Answer(GetPreviewMeta(files, tables, id))

\* The coordinates are validated before the mutex is asked for.
TileRequest(id, z, x, y) ==
  /\ phase = "serving"
  /\ ValidateTileCoords(z, x, y) => lock = Free
  /\ Answer(GetTile(files, tables, dataset_columns, id, z, x, y))

FeatureRequest(id, found) ==
  CanLock /\ Answer(GetFeatureProperties(files, tables, dataset_columns, id, found))

SchemaRequest(id) == CanLock /\ Answer(GetFileSchema(files, id))

PublicTileRequest(slug, z, x, y) ==
  /\ phase = "serving"
  /\ ValidateTileCoords(z, x, y) => lock = Free
  /\ Answer(GetPublicTile(files, published, tables, dataset_columns, slug, z, x, y))

\* --------------------------------------------------- stop and startup

\* The process stops: every task and every waiting request is gone with it;
\* the catalog, the per-dataset tables and the upload directory stay.
Crash ==
  /\ phase = "serving"
  /\ crashes < MaxCrashes
  /\ crashes' = crashes + 1
  /\ phase' = "starting"
  /\ task' = [ id \in Ids |-> [ NoTask EXCEPT !.sql_failed = task[id].sql_failed ] ]
  /\ lock' = Free
  /\ waiting' = [ c \in Clients |-> NoReq ]
  /\ UNCHANGED << files, published, tables, dataset_columns, disk, resp,
                  answered, race, faults, uploads, extra >>

\* Variant: the reconciler changes nothing.
ReconcileNothing(fs) == fs

\* Variant: every record that is not ready is failed.
ReconcileNotReady(fs) ==
  [ id \in DOMAIN fs |->
      IF fs[id].status \in { "uploaded", "processing", "failed" }
        THEN [ fs[id] EXCEPT !.status = "failed",
                             !.error = Some(PROCESSING_RECONCILIATION_ERROR) ]
        ELSE fs[id] ]

\* UPDATE files SET status = 'failed', error = ? WHERE status = 'processing'
ReconcileProcessingFiles(fs) ==
  [ id \in DOMAIN fs |->
      IF fs[id].status = "processing"
        THEN [ fs[id] EXCEPT !.status = "failed",
                             !.error = Some(PROCESSING_RECONCILIATION_ERROR) ]
        ELSE fs[id] ]

\* Startup: the schema is ensured, the reconciler runs, then requests are served.
Startup ==
  /\ phase = "starting"
  /\ files' = ReconcileProcessingFiles(files)
  /\ phase' = "serving"
  /\ UNCHANGED << published, tables, dataset_columns, disk, task, lock, resp,
                  waiting, answered, race, faults, uploads, crashes, extra >>

\* ------------------------------------------------------ specification

\* The next step of the task spawned for id.
WorkerStep(id) ==
  \/ WorkerSetProcessing(id)
  \/ ImportBegin(id)
  \/ ImportUpdateCrs(id)
  \/ ImportDropTable(id)
  \/ ImportCreateTable(id)
  \/ ImportSetTableName(id)
  \/ ImportClearMetadata(id)
  \/ ImportGeomRename(id)
  \/ ImportRefreshColumns(id)
  \/ ImportNormalizeColumn(id)
  \/ ImportCoerceColumn(id)
  \/ ImportRecordColumn(id)
  \/ WorkerFinish(id)

Worker == \E id \in Ids : WorkerStep(id)

Next ==
  \/ Upload
  \/ Worker
  \/ \E id \in Ids, requested \in SlugInputs : Publish(id, requested)
  \/ \E id \in Ids : Unpublish(id)
  \/ Crash
  \/ Startup

Spec == Init /\ [][Next]_vars


\* ------------------------------------------- failing SQL statements

\* Statements the engine can refuse for reasons outside the catalog (I/O,
\* memory).  A statement whose Result the code drops (let _ =) goes on; one
\* whose Result it propagates (?) makes import_spatial_data return Err.
MaxFaults == 1

CanFail(id, pc) == Importing(id, pc) /\ faults < MaxFaults /\ faults' = faults + 1

\* The statement at pc fails and its Result is dropped: the import goes on.
Swallowed(id, next) ==
  /\ SetTask(id, [ task[id] EXCEPT !.pc = next, !.sql_failed = TRUE ])
  /\ UNCHANGED << phase, files, published, tables, dataset_columns, disk, lock,
                  resp, waiting, answered, race, uploads, crashes, extra >>

\* The statement at pc fails and its Result is propagated.
Propagated(id, e) ==
  /\ ImportReturnsErr(id, e)
  /\ UNCHANGED << phase, files, published, tables, dataset_columns, disk,
                  resp, waiting, answered, race, uploads, crashes, extra >>

FaultUpdateCrs(id) ==
  CanFail(id, "crs") /\ IsSome(task[id].detected_crs) /\ Swallowed(id, "drop")

FaultDropTable(id) == CanFail(id, "drop") /\ Swallowed(id, "create")

FaultCreateTable(id) ==
  CanFail(id, "create") /\ Propagated(id, "Spatial import failed")

FaultSetTableName(id) == CanFail(id, "set_table") /\ Swallowed(id, "read_cols")

\* The DELETE fails; the column list was read before it.
FaultClearMetadata(id) ==
  /\ CanFail(id, "read_cols")
  /\ SetTask(id, [ task[id] EXCEPT !.pc = "geom", !.columns = ColumnsOf(tables[id]),
                                   !.i = 1, !.used = { FID }, !.sql_failed = TRUE ])
  /\ UNCHANGED << phase, files, published, tables, dataset_columns, disk, lock,
                  resp, waiting, answered, race, uploads, crashes, extra >>

FaultGeomRename(id) ==
  /\ CanFail(id, "geom")
  /\ task[id].i <= Len(task[id].columns)
  /\ NeedsGeomRename(task[id].columns[task[id].i])
  /\ Propagated(id, "Failed to normalize geometry column")

FaultNormalizeColumn(id) ==
  /\ CanFail(id, "normalize")
  /\ LET c == task[id].columns[task[id].i]
     IN /\ ~ IsReserved(c.name)
        /\ NormalizedFor(c.name, c.ordinal, task[id].used) # ToAsciiLowercase(c.name)
  /\ Propagated(id, "Failed to normalize column name")

FaultCoerceColumn(id) ==
  /\ CanFail(id, "coerce")
  /\ LET c == task[id].columns[task[id].i] IN NeedsCoercion(c.name, c.type)
  /\ Propagated(id, "Failed to coerce column type")

\* The INSERT into dataset_columns fails: the loop goes on without the row.
FaultRecordColumn(id) ==
  /\ CanFail(id, "record")
  /\ ~ IsReserved(task[id].columns[task[id].i].name)
  /\ LET last == task[id].i = Len(task[id].columns)
     IN /\ SetTask(id, [ task[id] EXCEPT !.pc = IF last THEN "ok" ELSE "normalize",
                                         !.i = @ + 1, !.sql_failed = TRUE ])
        /\ lock' = IF last THEN Free ELSE lock
  /\ UNCHANGED << phase, files, published, tables, dataset_columns, disk,
                  resp, waiting, answered, race, uploads, crashes, extra >>

Fault ==
  \E id \in Ids :
    \/ FaultUpdateCrs(id)
    \/ FaultDropTable(id)
    \/ FaultCreateTable(id)
    \/ FaultSetTableName(id)
    \/ FaultClearMetadata(id)
    \/ FaultGeomRename(id)
    \/ FaultNormalizeColumn(id)
    \/ FaultCoerceColumn(id)
    \/ FaultRecordColumn(id)

\* The import pipeline with failing statements.
NextFaults == Upload \/ Worker \/ Fault

SpecFaults == Init /\ [][NextFaults]_vars

\* Publish requests that wait for the mutex together, on plainly imported files.
RacePayloads == { p \in Payloads : p.readable /\ IsSome(p.crs) /\ Len(p.cols) = 2
                                    /\ p.cols[2] = GeomCol }

RaceSlugs == { None, Some(<< " ", "m" >>) }

NextRace ==
  \/ \E id \in Ids, p \in RacePayloads : UploadFile(id, p)
  \/ Worker
  \/ \E c \in Clients, id \in Ids, requested \in RaceSlugs : IssuePublish(c, id, requested)
  \/ \E c \in Clients : HandlePublish(c)
  \/ \E id \in Ids : Unpublish(id)

SpecRace == Init /\ [][NextRace]_vars

\* The import pipeline while the process keeps running.  A spawned task is
\* detached (tokio::spawn) and polled by the runtime until it returns, and the
\* mutex it waits for serves its waiters in order: each task's next step is
\* taken once it stays possible.
LivePayloads == { p \in Payloads : Len(p.cols) <= 2 }

NextLive == (\E id \in Ids, p \in LivePayloads : UploadFile(id, p)) \/ Worker

SpecLive == Init /\ [][NextLive]_vars /\ \A id \in Ids : WF_vars(WorkerStep(id))


\* Reading requests beside uploads, imports, publish and unpublish.

\* (z, x, y) of a tile request: inside and just outside every bound.
TileInputs ==
  { << 0, 0, 0 >>, << 0, 1, 0 >>, << 0, 0, 1 >>, << 1, 1, 1 >>, << 1, 2, 0 >>,
    << 1, 1, 2 >>, << MAX_Z, 2 ^ MAX_Z - 1, 2 ^ MAX_Z - 1 >>,
    << MAX_Z, 2 ^ MAX_Z, 0 >>, << MAX_Z + 1, 0, 0 >>,
    << -1, 0, 0 >>, << 0, -1, 0 >>, << 0, 0, -1 >>, << 2, 3, -4 >> }

\* The slug in the path of a public tile request; it is used as it comes.
PublicSlugs == { << "m" >>, << " ", "m" >>, IdString(1) }

\* A dataset imported plainly, one whose import fails after its table was
\* created, and a file the validator rejects.
ReadPayloads ==
  { p \in Payloads :
      \/ p = InvalidPayload
      \/ p.readable /\ Len(p.cols) = 2 /\ p.cols[1].name = << "N" >>
      \/ p.readable /\ Len(p.cols) = 3 /\ p.cols[2].name = << "a", "_", "b" >> }

NextRead ==
  \/ \E id \in Ids, p \in ReadPayloads : UploadFile(id, p)
  \/ Worker
  \/ \E id \in Ids, requested \in RaceSlugs : Publish(id, requested)
  \/ \E id \in Ids : Unpublish(id)
  \/ \E id \in Ids : PreviewRequest(id)
  \/ \E id \in Ids, c \in TileInputs : TileRequest(id, c[1], c[2], c[3])
  \/ \E id \in Ids, found \in BOOLEAN : FeatureRequest(id, found)
  \/ \E id \in Ids : SchemaRequest(id)
  \/ \E slug \in PublicSlugs, c \in TileInputs : PublicTileRequest(slug, c[1], c[2], c[3])

SpecRead == Init /\ [][NextRead]_vars


\* Publish and unpublish requests beside uploads and imports.

\* Requested slugs: absent, trimmed to "m", refused, a file's own id, and two
\* accepted slugs that hold the name of the file_id column.
PublishSlugs ==
  SlugInputs \cup { Some(FileIdColumn), Some(<< "m", "-" >> \o FileIdColumn) }

\* A dataset imported plainly and a file the validator rejects.
PublishPayloads ==
  { p \in Payloads :
      \/ p = InvalidPayload
      \/ p.readable /\ Len(p.cols) = 2 /\ p.cols[1].name = << "N" >> }

NextPublish ==
  \/ \E id \in Ids, p \in PublishPayloads : UploadFile(id, p)
  \/ Worker
  \/ \E id \in Ids, requested \in PublishSlugs : Publish(id, requested)
  \/ \E id \in Ids : Unpublish(id)

SpecPublish == Init /\ [][NextPublish]_vars

\* ------------------------------------------------- the upload body stream

\* state.max_size, in bytes.
max_size == 3

\* The chunks field.chunk() yields for one body: their lengths.
ChunkInputs ==
  { << >> } \cup { << a >> : a \in 1 .. max_size + 1 }
            \cup { << a, b >> : a, b \in 1 .. max_size + 1 }

\* upload_file has created the file and not yet answered.
Streaming == stream.id # 0 /\ resp = NoResp

\* Variant: a body as large as the cap is refused.
OverCapInclusive(size) == size >= max_size

\* size > state.max_size
OverCap(size) == size > max_size

\* upload_file up to File::create, for a new id (create_id) and a body whose
\* stored form is p.
StreamBegin(id, chunks, p) ==
  /\ phase = "serving"
  /\ ~ Streaming
  /\ files[id].status = "absent"
  /\ stream' = [ id |-> id, chunks |-> chunks, size |-> 0, written |-> Some(0), p |-> p ]
  /\ resp' = NoResp
  /\ UNCHANGED << phase, files, published, tables, dataset_columns, disk, task,
                  lock, waiting, answered, race, faults, uploads, crashes >>
  /\ UNCHANGED otherThanStream

\* One turn of the while loop: the chunk is counted, then written unless the
\* count passed the cap, in which case the file is removed and 413 answered.
StreamChunk ==
  /\ phase = "serving"
  /\ Streaming
  /\ stream.chunks # << >>
  /\ LET size == stream.size + Head(stream.chunks) IN
     IF OverCap(size)
       THEN /\ stream' = [ stream EXCEPT !.chunks = << >>, !.size = size,
                                         !.written = None ]
            /\ resp' = Resp("upload", stream.id, 413, Some("File too large"))
       ELSE /\ stream' = [ stream EXCEPT !.chunks = Tail(stream.chunks), !.size = size,
                                         !.written = Some(size) ]
            /\ resp' = resp
  /\ UNCHANGED << phase, files, published, tables, dataset_columns, disk, task,
                  lock, waiting, answered, race, faults, uploads, crashes >>
  /\ UNCHANGED otherThanStream

\* The body ended within the cap: the file is flushed and the rest of
\* upload_file runs.
StreamEnd ==
  /\ Streaming
  /\ stream.chunks = << >>
  /\ UploadFile(stream.id, stream.p)

NextStream ==
  \/ \E id \in Ids, chunks \in ChunkInputs, p \in PublishPayloads :
       StreamBegin(id, chunks, p)
  \/ StreamChunk
  \/ StreamEnd

SpecStream == Init /\ [][NextStream]_vars


\* ------------------------------------------------------ the session store

\* Clock ticks in one second: instants finer than a second exist.
TicksPerSecond == 2

\* The clock stops here.
MaxNow == 4

\* OffsetDateTime::unix_timestamp and DateTime::timestamp: whole seconds
UnixTimestamp(t) == t \div TicksPerSecond

\* DateTime::from_timestamp(secs, 0) and OffsetDateTime::from_unix_timestamp
FromTimestamp(secs) == secs * TicksPerSecond

\* Id::to_string
SessionIdString(id) == << "s", DigitSeq[id + 1] >>

\* str::parse::<Id>
ParseSessionId(s) == CHOOSE id \in SessionIds : SessionIdString(id) = s

\* Record.data, a HashMap<String, Value>: a set of << key, value >> entries.
DataInputs ==
  { { },
    { << "user_id", "123" >> },
    { << "user_id", "123" >>, << "new_key", "new_value" >> } }

\* Record.expiry_date, in ticks: on a whole second and between two.
ExpiryInputs == { TicksPerSecond, TicksPerSecond + 1 }

Record(id, data, expiry_date) ==
  [ id |-> id, data |-> data, expiry_date |-> expiry_date ]

\* serde_json::to_string(&record.data): the entries, in the map's order.
RECURSIVE RecordToJson(_)
RecordToJson(data) ==
  IF data = { } THEN << >>
  ELSE LET e == CHOOSE e \in data : TRUE
       IN << e >> \o RecordToJson(data \ { e })

\* json_to_record
JsonToRecord(id, data, expiry_date) ==
  Record(ParseSessionId(id), Range(data),
         FromTimestamp(UnixTimestamp(expiry_date)))

\* Variant: INSERT without OR REPLACE semantics on the key.
SaveRowsAppend(rows, record) ==
  rows \cup { [ id |-> SessionIdString(record.id),
                data |-> RecordToJson(record.data),
                expiry_date |-> FromTimestamp(UnixTimestamp(record.expiry_date)) ] }

\* save: INSERT OR REPLACE INTO sessions (id is the primary key)
SaveRows(rows, record) ==
  { r \in rows : r.id # SessionIdString(record.id) }
    \cup { [ id |-> SessionIdString(record.id),
             data |-> RecordToJson(record.data),
             expiry_date |-> FromTimestamp(UnixTimestamp(record.expiry_date)) ] }

\* load, at clock t
LoadRecord(rows, t, session_id) ==
  LET found == { r \in rows : r.id = SessionIdString(session_id) } IN
  IF found = { } THEN None
  ELSE LET row == CHOOSE r \in found : TRUE
       IN IF row.expiry_date < t THEN None
          ELSE Some(JsonToRecord(row.id, row.data, row.expiry_date))

\* delete: DELETE FROM sessions WHERE id = ?
DeleteRows(rows, session_id) ==
  { r \in rows : r.id # SessionIdString(session_id) }

Save(id, data, expiry_date) ==
  /\ CanLock
  /\ sessions' = SaveRows(sessions, Record(id, data, expiry_date))
  /\ kept' = [ kept EXCEPT ![id] = Some(Record(id, data, expiry_date)) ]
  /\ store_resp' = [ op |-> "save", id |-> id, result |-> None ]
  /\ UNCHANGED << core, now, otherThanStore >>

Load(id) ==
  /\ CanLock
  /\ store_resp' = [ op |-> "load", id |-> id, result |-> LoadRecord(sessions, now, id) ]
  /\ UNCHANGED << core, sessions, now, kept, otherThanStore >>

Delete(id) ==
  /\ CanLock
  /\ sessions' = DeleteRows(sessions, id)
  /\ kept' = [ kept EXCEPT ![id] = None ]
  /\ store_resp' = [ op |-> "delete", id |-> id, result |-> None ]
  /\ UNCHANGED << core, now, otherThanStore >>

\* Time passes.
Tick ==
  /\ now < MaxNow
  /\ now' = now + 1
  /\ UNCHANGED << core, sessions, kept, store_resp, otherThanStore >>

NextStore ==
  \/ \E id \in SessionIds, data \in DataInputs, expiry_date \in ExpiryInputs :
       Save(id, data, expiry_date)
  \/ \E id \in SessionIds : Load(id)
  \/ \E id \in SessionIds : Delete(id)
  \/ Tick

SpecStore == Init /\ [][NextStore]_vars


\* ------------------------------------------------- passwords and accounts

PASSWORD_MIN_LENGTH == 8
PASSWORD_MAX_LENGTH == 128

\* The special characters of the matches! list; its quote characters and the
\* backslash are left out, no input carries them.
SpecialChars ==
  { "!", "@", "#", "$", "%", "^", "&", "*", "_", "-", "+", "=", "(", ")", "[",
    "]", "{", "}", "|", ":", ";", "<", ">", ",", ".", "?", "/", "~" }

\* validate_password_complexity: Ok, or the first requirement that is not met
ValidatePasswordComplexity(password) ==
  IF Len(password) < PASSWORD_MIN_LENGTH THEN "TooShort"
  ELSE IF Len(password) > PASSWORD_MAX_LENGTH THEN "TooLong"
  ELSE IF ~ \E k \in DOMAIN password : password[k] \in Range(UpperSeq)
    THEN "MissingUppercase"
  ELSE IF ~ \E k \in DOMAIN password : password[k] \in Range(LowerSeq)
    THEN "MissingLowercase"
  ELSE IF ~ \E k \in DOMAIN password : password[k] \in Range(DigitSeq)
    THEN "MissingDigit"
  ELSE IF ~ \E k \in DOMAIN password : password[k] \in SpecialChars
    THEN "MissingSpecial"
  ELSE "Ok"

\* The salts bcrypt draws.
Salts == 1 .. 2

\* hash_password: bcrypt at DEFAULT_COST with a fresh salt
HashPassword(password, salt) ==
  [ cost |-> "DEFAULT_COST", salt |-> salt, password |-> password ]

\* verify_password: one bcrypt computation at the cost of the hash
VerifyPassword(password, hash) == hash.password = password

DummyPassword == << "dummy_password_for_timing_attack" >>

\* The passwords requests carry: two that meet the requirements, one that is
\* too short and one without an uppercase letter.
PasswordInputs ==
  { << "T", "e", "s", "t", "1", "2", "3", "!" >>,
    << "A", "d", "m", "i", "n", "1", "2", "#" >>,
    << "T", "e", "s", "t", "1", "!" >>,
    << "t", "e", "s", "t", "1", "2", "3", "!" >> }

UsernameInputs == { "admin", "root" }

\* uuid::Uuid::new_v4().to_string()
UserIds == { "u1", "u2" }

UserRow(id, username, password_hash, role) ==
  [ id |-> id, username |-> username, password_hash |-> password_hash,
    role |-> role ]

\* SELECT id, username, password_hash, role FROM users WHERE username = ?
UsersNamed(rows, username) == { u \in rows : u.username = username }

\* Variant: for an unknown username nothing is verified.
AuthenticateNoDummy(rows, dummy, salt, username, password) ==
  LET found == UsersNamed(rows, username) IN
  IF found # { }
    THEN LET user == CHOOSE u \in found : TRUE
             is_valid == VerifyPassword(password, user.password_hash)
         IN [ result |-> IF is_valid THEN "Ok" ELSE "InvalidCredentials",
              user |-> IF is_valid THEN Some(user) ELSE None,
              verified |-> << user.password_hash >>,
              hashed |-> 0,
              dummy |-> dummy ]
    ELSE [ result |-> "InvalidCredentials", user |-> None, verified |-> << >>,
           hashed |-> 0, dummy |-> dummy ]

\* AuthBackend::authenticate: the Result, the hashes verified against, the
\* number of hashes computed and DUMMY_HASH afterwards.
Authenticate(rows, dummy, salt, username, password) ==
  LET found == UsersNamed(rows, username) IN
  IF found # { }
    THEN LET user == CHOOSE u \in found : TRUE
             is_valid == VerifyPassword(password, user.password_hash)
         IN [ result |-> IF is_valid THEN "Ok" ELSE "InvalidCredentials",
              user |-> IF is_valid THEN Some(user) ELSE None,
              verified |-> << user.password_hash >>,
              hashed |-> 0,
              dummy |-> dummy ]
    ELSE \* DUMMY_HASH.get_or_init
         LET dummy_hash_ == IF dummy = None
                              THEN Some(HashPassword(DummyPassword, salt))
                              ELSE dummy
         IN [ result |-> "InvalidCredentials", user |-> None,
              verified |-> << Unwrap(dummy_hash_) >>,
              hashed |-> IF dummy = None THEN 1 ELSE 0,
              dummy |-> dummy_hash_ ]

AuthCall(op, code, a) ==
  [ op |-> op, code |-> code, result |-> a.result, verified |-> a.verified,
    hashed |-> a.hashed ]

\* A direct call of AuthBackend::authenticate.
AuthenticateCall(username, password, salt) ==
  /\ CanLock
  /\ LET a == Authenticate(users, dummy_hash, salt, username, password) IN
       /\ dummy_hash' = a.dummy
       /\ auth_resp' = AuthCall("authenticate", 0, a)
  /\ UNCHANGED << core, users, system_settings, init_waiting, storeVars, otherThanAuthAndStore >>

\* The status login answers with for a result of authenticate:
\* .map_err(500)? then .ok_or_else(401)? then the session.
LoginCode(a) ==
  IF a.result # "Ok" THEN 500
  ELSE IF a.user = None THEN 401
  ELSE 200

\* What auth_session.login stores for the user.
LoginData(user) == { << "axum-login.data", user.id >> }

\* POST /api/auth/login
Login(username, password, salt, session_id) ==
  /\ CanLock
  /\ LET a == Authenticate(users, dummy_hash, salt, username, password)
         code == LoginCode(a)
     IN /\ dummy_hash' = a.dummy
        /\ auth_resp' = AuthCall("login", code, a)
        /\ IF code = 200
             THEN LET record == Record(session_id, LoginData(Unwrap(a.user)),
                                       now + TicksPerSecond)
                  IN /\ sessions' = SaveRows(sessions, record)
                     /\ kept' = [ kept EXCEPT ![session_id] = Some(record) ]
             ELSE UNCHANGED << sessions, kept >>
  /\ UNCHANGED << core, users, system_settings, init_waiting, now, store_resp,
                  otherThanAuthAndStore >>

Initialized == [ key |-> "initialized", value |-> "1" ]

\* Variant: the system never counts as initialized.
IsInitializedNever(settings) == FALSE

\* is_initialized: SELECT value FROM system_settings WHERE key = 'initialized'
IsInitialized(settings) ==
  \E r \in settings : r.key = "initialized" /\ r.value = "1"

\* set_initialized: INSERT OR REPLACE INTO system_settings
SetInitialized(settings) ==
  { r \in settings : r.key # "initialized" } \cup { Initialized }

\* init_system up to the mutex: the password is validated, then the request
\* waits for the connection.
InitArrive(c, username, password) ==
  /\ phase = "serving"
  /\ init_waiting[c] = NoInit
  /\ IF ValidatePasswordComplexity(password) # "Ok"
       THEN /\ auth_resp' = [ NoAuthCall EXCEPT !.op = "init", !.code = 400,
                                               !.result = c ]
            /\ UNCHANGED init_waiting
       ELSE /\ init_waiting' = [ init_waiting EXCEPT ![c] =
                                   [ username |-> username, password |-> password ] ]
            /\ UNCHANGED auth_resp
  /\ UNCHANGED << core, users, system_settings, dummy_hash, storeVars, otherThanAuthAndStore >>

\* init_system under the mutex.
InitSystem(c, salt, user_id) ==
  /\ CanLock
  /\ init_waiting[c] # NoInit
  /\ init_waiting' = [ init_waiting EXCEPT ![c] = NoInit ]
  /\ IF IsInitialized(system_settings)
       THEN /\ auth_resp' = [ NoAuthCall EXCEPT !.op = "init", !.code = 409,
                                               !.result = c ]
            /\ UNCHANGED << users, system_settings >>
       ELSE LET req == init_waiting[c]
                row == UserRow(user_id, req.username,
                               HashPassword(req.password, salt), "admin")
            IN IF \E u \in users : u.id = row.id \/ u.username = row.username
                 THEN \* INSERT INTO users fails
                      /\ auth_resp' = [ NoAuthCall EXCEPT !.op = "init",
                                                         !.code = 500, !.result = c ]
                      /\ UNCHANGED << users, system_settings >>
                 ELSE /\ users' = users \cup { row }
                      /\ system_settings' = SetInitialized(system_settings)
                      /\ auth_resp' = [ NoAuthCall EXCEPT !.op = "init",
                                                         !.code = 200, !.result = c,
                                                         !.hashed = 1 ]
  /\ UNCHANGED << core, dummy_hash, storeVars, otherThanAuthAndStore >>

NextAuth ==
  \/ \E username \in UsernameInputs, password \in PasswordInputs, salt \in Salts :
       AuthenticateCall(username, password, salt)
  \/ \E username \in UsernameInputs, password \in PasswordInputs, salt \in Salts,
        session_id \in SessionIds :
       Login(username, password, salt, session_id)
  \/ \E c \in Clients, username \in UsernameInputs, password \in PasswordInputs :
       InitArrive(c, username, password)
  \/ \E c \in Clients, salt \in Salts, user_id \in UserIds :
       InitSystem(c, salt, user_id)

SpecAuth == Init /\ [][NextAuth]_vars


\* ------------------------------------------------- the spatial extension

SPATIAL_INSTALL_MAX_ATTEMPTS == 5

Ld(t) == loader[t]

SetLoad(t, l) == loader' = [ loader EXCEPT ![t] = l ]

\* The outcomes LOAD spatial can have: it fails while the extension is not in
\* the cache and may still fail when it is.
LoadOutcomes == IF installed THEN BOOLEAN ELSE { FALSE }

\* Variant: the guard is taken whether or not it is free.
GuardFreeAlways(holder) == TRUE

\* lock.lock() returns: no other thread holds the guard
GuardFree(holder) == holder = NoThread

\* Variant: a sleep follows every attempt.
ShouldSleepAlways(attempt) == TRUE

\* if attempt < SPATIAL_INSTALL_MAX_ATTEMPTS { sleep }
ShouldSleep(attempt) == attempt < SPATIAL_INSTALL_MAX_ATTEMPTS

\* return Ok(()) / return Err(..): the guard, if held, is dropped
Returned(t, l, result) ==
  /\ SetLoad(t, [ l EXCEPT !.pc = "done", !.result = result ])
  /\ install_lock' = IF install_lock = t THEN NoThread ELSE install_lock

\* for attempt in 1..=SPATIAL_INSTALL_MAX_ATTEMPTS: the next round or the end
NextAttempt(t, l) ==
  IF l.attempt + 1 <= SPATIAL_INSTALL_MAX_ATTEMPTS
    THEN /\ SetLoad(t, [ l EXCEPT !.pc = "install", !.attempt = l.attempt + 1 ])
         /\ UNCHANGED install_lock
    ELSE Returned(t, l, "Err")

\* A thread calls ensure_spatial_extension.
CallLoader(t) ==
  /\ Ld(t).pc = "idle"
  /\ SetLoad(t, [ NoLoad EXCEPT !.pc = "fast" ])
  /\ UNCHANGED << core, install_lock, installed, otherThanLoader >>

\* Fast path: LOAD spatial
FastLoad(t) ==
  /\ Ld(t).pc = "fast"
  /\ \E ok \in LoadOutcomes :
       IF ok THEN Returned(t, Ld(t), "Ok")
       ELSE /\ SetLoad(t, [ Ld(t) EXCEPT !.pc = "local" ])
            /\ UNCHANGED install_lock
  /\ UNCHANGED << core, installed, otherThanLoader >>

\* try_load_spatial_from_path failed: its error, prefixed "post-lock" after
\* the guard
LocalDiagnostic(post) ==
  [ attempt |-> 0, of |-> IF post THEN "post-lock local load" ELSE "local load" ]

\* The local extension file, if one exists, is loaded: before the guard and
\* again after it.
LocalLoad(t) ==
  /\ Ld(t).pc \in { "local", "post_local" }
  /\ LET post == Ld(t).pc = "post_local"
         after == IF post
                    THEN [ Ld(t) EXCEPT !.pc = "install", !.attempt = 1 ]
                    ELSE [ Ld(t) EXCEPT !.pc = "lock" ]
     IN \E exists \in BOOLEAN, ok \in BOOLEAN :
          IF exists /\ ok THEN Returned(t, Ld(t), "Ok")
          ELSE /\ SetLoad(t, IF exists
                               THEN [ after EXCEPT !.errors =
                                        Append(@, LocalDiagnostic(post)) ]
                               ELSE after)
               /\ UNCHANGED install_lock
  /\ UNCHANGED << core, installed, otherThanLoader >>

\* lock.lock(): the thread blocks while another thread holds the guard.
WaitGuard(t) ==
  /\ Ld(t).pc = "lock"
  /\ ~ GuardFree(install_lock)
  /\ ~ Ld(t).waited
  /\ SetLoad(t, [ Ld(t) EXCEPT !.waited = TRUE ])
  /\ UNCHANGED << core, install_lock, installed, otherThanLoader >>

AcquireGuard(t) ==
  /\ Ld(t).pc = "lock"
  /\ GuardFree(install_lock)
  /\ install_lock' = t
  /\ SetLoad(t, [ Ld(t) EXCEPT !.pc = "recheck" ])
  /\ UNCHANGED << core, installed, otherThanLoader >>

\* Another thread may have completed install while we were waiting.
RecheckLoad(t) ==
  /\ Ld(t).pc = "recheck"
  /\ \E ok \in LoadOutcomes :
       IF ok THEN Returned(t, [ Ld(t) EXCEPT !.rechecked = "loaded" ], "Ok")
       ELSE /\ SetLoad(t, [ Ld(t) EXCEPT !.pc = "post_local", !.rechecked = "failed" ])
            /\ UNCHANGED install_lock
  /\ UNCHANGED << core, installed, otherThanLoader >>

\* INSTALL spatial
Install(t) ==
  /\ Ld(t).pc = "install"
  /\ \E ok \in BOOLEAN :
       /\ SetLoad(t, [ Ld(t) EXCEPT !.pc = "load", !.install_ok = ok,
                                    !.installs = @ + 1 ])
       /\ installed' = (installed \/ ok)
  /\ UNCHANGED << core, install_lock, otherThanLoader >>

\* format!("attempt {}: install ok, load failed: {}", attempt, e) and
\* format!("attempt {}: install failed: {}", attempt, e): the diagnostic of an
\* attempt, kept as the attempt's number.
AttemptDiagnostic(attempt, install_ok) == [ attempt |-> attempt, of |-> "install" ]

\* LOAD spatial after INSTALL, whether it succeeded or failed; a failure is
\* recorded and followed by the sleep unless the attempt was the last.
LoadAfterInstall(t) ==
  /\ Ld(t).pc = "load"
  /\ \E ok \in LoadOutcomes :
       IF ok THEN Returned(t, Ld(t), "Ok")
       ELSE LET l == [ Ld(t) EXCEPT !.errors =
                         Append(@, AttemptDiagnostic(Ld(t).attempt, Ld(t).install_ok)),
                                    !.install_ok = FALSE ]
            IN IF ShouldSleep(l.attempt)
                 THEN /\ SetLoad(t, [ l EXCEPT !.pc = "sleep" ])
                      /\ UNCHANGED install_lock
                 ELSE NextAttempt(t, l)
  /\ UNCHANGED << core, installed, otherThanLoader >>

\* std::thread::sleep(250 ms * attempt), the guard held
Sleep(t) ==
  /\ Ld(t).pc = "sleep"
  /\ NextAttempt(t, [ Ld(t) EXCEPT !.sleeps = @ + 1 ])
  /\ UNCHANGED << core, installed, otherThanLoader >>

\* The caller has the result.
LoaderReturn(t) ==
  /\ Ld(t).pc = "done"
  /\ SetLoad(t, NoLoad)
  /\ UNCHANGED << core, install_lock, installed, otherThanLoader >>

LoaderStep(t) ==
  \/ CallLoader(t)
  \/ FastLoad(t)
  \/ LocalLoad(t)
  \/ WaitGuard(t)
  \/ AcquireGuard(t)
  \/ RecheckLoad(t)
  \/ Install(t)
  \/ LoadAfterInstall(t)
  \/ Sleep(t)
  \/ LoaderReturn(t)

NextLoader == \E t \in Threads : LoaderStep(t)

\* A thread that is inside the call keeps running.
LoaderRuns(t) ==
  \/ FastLoad(t)
  \/ LocalLoad(t)
  \/ RecheckLoad(t)
  \/ Install(t)
  \/ LoadAfterInstall(t)
  \/ Sleep(t)

SpecLoader ==
  Init /\ [][NextLoader]_vars /\ \A t \in Threads : WF_vars(LoaderRuns(t))


\* ------------------------------------------------- column name normalizing

MaxNameLen == 3

\* The characters of the names: a lowercase and an uppercase letter, a digit,
\* the underscore, a blank and a character that is none of these.
NameChars == { "a", "B", "1", "_", " ", "-" }

\* Every name of up to MaxNameLen characters, the keywords, and names with
\* runs of separators.
NameInputs ==
  UNION { [ 1 .. n -> NameChars ] : n \in 0 .. MaxNameLen }
    \cup KEYWORDS
    \cup { ToAsciiLowercase(k) \o << " " >> : k \in KEYWORDS }
    \cup { << "S", "e", "l", "e", "c", "t" >>,
           << "a", "-", "-", "-", "b" >>,
           << "_", "_", "b", "y", "_", "_" >>,
           << "1", "-", "-", "-", "-", "a" >> }

\* normalize_column_name(name)
Normalize(name) ==
  /\ norm.applied = 0
  /\ norm' = [ name |-> name, applied |-> 1, once |-> NormalizeColumnName(name),
               twice |-> None ]
  /\ UNCHANGED << core, otherThanNorm >>

\* normalize_column_name of the result, when there is one
NormalizeAgain ==
  /\ norm.applied = 1
  /\ IsSome(norm.once)
  /\ norm' = [ norm EXCEPT !.applied = 2,
                           !.twice = NormalizeColumnName(Unwrap(norm.once)) ]
  /\ UNCHANGED << core, otherThanNorm >>

NextNorm ==
  \/ \E name \in NameInputs : Normalize(name)
  \/ NormalizeAgain

SpecNorm == Init /\ [][NextNorm]_vars


\* ------------------------------------------------------- the tile's body

MvtContentType == "application/vnd.mapbox-vector-tile"

\* The value in the single row of the tile query: NULL, an empty blob, a blob.
BlobInputs == { None, Some(<< >>), Some(<< 26, 0 >>) }

\* Variant: a NULL value reads as no blob.
RowGetOptional(value) == [ ok |-> TRUE, blob |-> value ]

\* row.get(0) into Vec<u8>: a NULL value does not convert and is an error
RowGet(value) ==
  IF value = None THEN [ ok |-> FALSE, blob |-> None ]
  ELSE [ ok |-> TRUE, blob |-> value ]

Reply(code, content_type, body) ==
  [ code |-> code, content_type |-> content_type, body |-> body ]

\* get_tile and get_public_tile from query_row on: r is the response up to
\* the query (200: the statement ran), value what its row holds.
TileReply(r, value) ==
  IF r.code # 200 THEN Reply(r.code, "application/json", << >>)
  ELSE LET mvt_blob == RowGet(value) IN
       IF ~ mvt_blob.ok THEN Reply(500, "application/json", << >>)
       ELSE IF IsSome(mvt_blob.blob) /\ Unwrap(mvt_blob.blob) # << >>
         THEN Reply(200, MvtContentType, Unwrap(mvt_blob.blob))
         ELSE Reply(200, MvtContentType, << >>)

\* The response with the status of the reply.
Replied(r, reply) ==
  IF reply.code = r.code THEN r
  ELSE [ r EXCEPT !.code = reply.code, !.info = Some("Tile generation failed") ]

AnswerTile(r, value) ==
  /\ tile_reply' = TileReply(r, value)
  /\ resp' = Replied(r, TileReply(r, value))
  /\ UNCHANGED << phase, files, published, tables, dataset_columns, disk, task,
                  lock, waiting, answered, race, faults, uploads, crashes,
                  otherThanTile >>

\* GET /api/files/:id/tiles/:z/:x/:y
TileBodyRequest(id, z, x, y, value) ==
  /\ phase = "serving"
  /\ ValidateTileCoords(z, x, y) => lock = Free
  /\ AnswerTile(GetTile(files, tables, dataset_columns, id, z, x, y), value)

\* GET /tiles/:slug/:z/:x/:y
PublicTileBodyRequest(slug, z, x, y, value) ==
  /\ phase = "serving"
  /\ ValidateTileCoords(z, x, y) => lock = Free
  /\ AnswerTile(GetPublicTile(files, published, tables, dataset_columns,
                              slug, z, x, y), value)

\* Coordinates of tile requests: valid ones and one that is not.
BodyTileInputs == { << 0, 0, 0 >>, << 1, 1, 1 >>, << 1, 2, 0 >> }

NextTile ==
  \/ \E id \in Ids, p \in ReadPayloads : UploadFile(id, p)
  \/ Worker
  \/ \E id \in Ids : Publish(id, None)
  \/ \E id \in Ids, c \in BodyTileInputs, value \in BlobInputs :
       TileBodyRequest(id, c[1], c[2], c[3], value)
  \/ \E slug \in PublicSlugs, c \in BodyTileInputs, value \in BlobInputs :
       PublicTileBodyRequest(slug, c[1], c[2], c[3], value)

SpecTile == Init /\ [][NextTile]_vars


\* ------------------------------------------------- the shapefile archive

MaxEntries == 3

\* Entry names of the archives: a shapefile's three parts, in lower, upper
\* and mixed case and inside a directory, parts of a second shapefile, a
\* directory named like a shapefile, and an unrelated file.
EntryNames ==
  { << "a", ".", "s", "h", "p" >>,
    << "A", ".", "S", "H", "P" >>,
    << "a", ".", "s", "h", "x" >>,
    << "a", ".", "d", "b", "f" >>,
    << "d", "/", "a", ".", "D", "b", "f" >>,
    << "b", ".", "s", "h", "p" >>,
    << "b", ".", "s", "h", "x" >>,
    << "a", ".", "s", "h", "p", "/" >>,
    << "r", ".", "t", "x", "t" >> }

\* A readable archive is the sequence of its entry names; Unreadable is a
\* file ZipArchive::new or by_index cannot read.
Unreadable == << << "!" >> >>

ZipInputs ==
  UNION { [ 1 .. n -> EntryNames ] : n \in 0 .. MaxEntries } \cup { Unreadable }

\* ZipFile::is_file: the name does not end in a slash
IsFile(name) == name = << >> \/ name[Len(name)] # "/"

\* Path::new(name).file_name() of a file entry: the text after the last
\* slash, None when that is ".."
RECURSIVE FileName(_)
FileName(name) ==
  IF \E k \in DOMAIN name : name[k] = "/"
    THEN FileName(Tail(name))
  ELSE IF name = << ".", "." >> \/ name = << >> THEN None
  ELSE Some(name)

\* str::ends_with
EndsWith(s, suffix) ==
  /\ Len(s) >= Len(suffix)
  /\ SubSeq(s, Len(s) - Len(suffix) + 1, Len(s)) = suffix

\* str::strip_suffix, for a string that ends with the suffix
StripSuffix(s, suffix) == SubSeq(s, 1, Len(s) - Len(suffix))

DotShp == << ".", "s", "h", "p" >>
DotShx == << ".", "s", "h", "x" >>
DotDbf == << ".", "d", "b", "f" >>

\* The loop over the archive: the lower-cased leaf names of its file entries.
RECURSIVE EntriesOf(_)
EntriesOf(archive) ==
  IF archive = << >> THEN << >>
  ELSE LET name == Head(archive) IN
       IF IsFile(name) /\ IsSome(FileName(name))
         THEN << ToAsciiLowercase(Unwrap(FileName(name))) >> \o EntriesOf(Tail(archive))
         ELSE EntriesOf(Tail(archive))

\* Variant: one of the two companions is enough.
CompleteEither(has_shx, has_dbf) == has_shx \/ has_dbf

\* if has_shx && has_dbf
Complete(has_shx, has_dbf) == has_shx /\ has_dbf

\* for base in shp_bases { .. return Ok(()) }: TRUE when some base returns
RECURSIVE SomeBaseComplete(_, _)
SomeBaseComplete(shp_bases, entries) ==
  IF shp_bases = << >> THEN FALSE
  ELSE LET base == Head(shp_bases)
           has_shx == \E k \in DOMAIN entries : entries[k] = base \o DotShx
           has_dbf == \E k \in DOMAIN entries : entries[k] = base \o DotDbf
       IN IF Complete(has_shx, has_dbf) THEN TRUE
          ELSE SomeBaseComplete(Tail(shp_bases), entries)

UnableToReadZip == "Unable to read zip file"
MissingShp == "Missing .shp file in zip"
MissingCompanions == "Shapefile zip must include .shp/.shx/.dbf with the same name"

\* validate_shapefile_zip: None for Ok(()), Some(message) for Err(message)
ValidateShapefileZip(archive) ==
  IF archive = Unreadable THEN Some(UnableToReadZip)
  ELSE LET entries == EntriesOf(archive)
           shps == SelectSeq(entries, LAMBDA name : EndsWith(name, DotShp))
           shp_bases == [ k \in DOMAIN shps |-> StripSuffix(shps[k], DotShp) ]
       IN IF \A k \in DOMAIN entries : ~ EndsWith(entries[k], DotShp)
            THEN Some(MissingShp)
          ELSE IF SomeBaseComplete(shp_bases, entries) THEN None
          ELSE Some(MissingCompanions)

\* The validator runs on an uploaded archive.
ValidateZip(archive) ==
  /\ ~ zip.validated
  /\ zip' = [ archive |-> archive, validated |-> TRUE,
              result |-> ValidateShapefileZip(archive) ]
  /\ UNCHANGED << core, otherThanZip >>

\* The next upload.
ForgetZip ==
  /\ zip.validated
  /\ zip' = NoZip
  /\ UNCHANGED << core, otherThanZip >>

NextZip ==
  \/ \E archive \in ZipInputs : ValidateZip(archive)
  \/ ForgetZip

SpecZip == Init /\ [][NextZip]_vars


\* ------------------------------------- publish and unpublish by statement

\* The statement of a handler that the engine answers with an error, if any.
FailingStatements == { "none", "select", "insert", "update", "delete" }

Closed(fs, pub, r) == [ files |-> fs, published |-> pub, resp |-> r, txn |-> FALSE ]

\* The handler returned and the transaction it began, or found, is open.
LeftOpen(fs, pub, r) == [ files |-> fs, published |-> pub, resp |-> r, txn |-> TRUE ]

InternalError(op, id) == Resp(op, id, 500, Some("internal error"))

\* The second SELECT status, name of publish_file, inside the transaction:
\* .map_err(404)? returns at once.
SelectInTransaction(fs, pub, id, fail, rest) ==
  IF fail = "select"
    THEN LeftOpen(fs, pub, Resp("publish", id, 404, Some("File not found")))
    ELSE rest

\* publish_file statement by statement: open is the connection's state when
\* the handler takes the lock, fail the statement that errors.
PublishStatements(fs, pub, open, id, requested, fail) ==
  LET before == PublishFile(fs, pub, id, requested)
      v == ValidateSlug(IF IsSome(requested) THEN Unwrap(requested) ELSE IdString(id))
  IN
  IF fs[id].status = "absent" \/ ~ StatusIsReady(fs[id].status) \/ ~ v.ok
    THEN \* returns before BEGIN TRANSACTION
         [ files |-> fs, published |-> pub, resp |-> before.resp, txn |-> open ]
  ELSE IF open
    THEN \* BEGIN TRANSACTION inside a transaction: .map_err(internal_error)?
         LeftOpen(fs, pub, InternalError("publish", id))
  ELSE
    SelectInTransaction(fs, pub, id, fail,
      LET ins == InsertPublished(pub, id, v.slug) IN
      IF fail = "insert"
        THEN \* neither arm matches the message: ROLLBACK, 400
             Closed(fs, pub, Resp("publish", id, 400, Some("engine error")))
      ELSE IF ins.ok /\ fail = "update"
        THEN \* publish_result is Err: ROLLBACK, 400
             Closed(fs, pub, Resp("publish", id, 400, Some("engine error")))
      ELSE \* COMMIT or ROLLBACK as without an engine error
           Closed(before.files, before.published, before.resp))

\* The DELETE of unpublish_file: .map_err(internal_error)? returns at once.
DeleteInTransaction(fs, pub, id, fail, rest) ==
  IF fail = "delete" THEN LeftOpen(fs, pub, InternalError("unpublish", id)) ELSE rest

\* unpublish_file statement by statement.
UnpublishStatements(fs, pub, open, id, fail) ==
  LET after == UnpublishFile(fs, pub, id) IN
  IF open
    THEN \* BEGIN TRANSACTION inside a transaction: .map_err(internal_error)?
         LeftOpen(fs, pub, InternalError("unpublish", id))
  ELSE
    DeleteInTransaction(fs, pub, id, fail,
      IF after.resp.code = 200 /\ fail = "update"
        THEN \* update_result is Err: ROLLBACK, 500
             Closed(fs, pub, InternalError("unpublish", id))
        ELSE \* rows_affected == 0: ROLLBACK, 404; else COMMIT
             Closed(after.files, after.published, after.resp))

Handled(o) ==
  /\ files' = o.files
  /\ published' = o.published
  /\ resp' = o.resp
  /\ txn' = o.txn
  /\ UNCHANGED << phase, tables, dataset_columns, disk, task, lock, waiting,
                  answered, race, faults, uploads, crashes, otherThanTxn >>

\* POST /api/files/:id/publish
PublishRequest(id, requested, fail) ==
  /\ CanLock
  /\ Handled(PublishStatements(files, published, txn, id, requested, fail))

\* POST /api/files/:id/unpublish
UnpublishRequest(id, fail) ==
  /\ CanLock
  /\ Handled(UnpublishStatements(files, published, txn, id, fail))

NextTxn ==
  \/ \E id \in Ids, p \in ReadPayloads : UploadFile(id, p)
  \/ Worker
  \/ \E id \in Ids, requested \in RaceSlugs, fail \in FailingStatements :
       PublishRequest(id, requested, fail)
  \/ \E id \in Ids, fail \in FailingStatements : UnpublishRequest(id, fail)

SpecTxn == Init /\ [][NextTxn]_vars


\* ------------------------------------- column names of a finished import

\* Pairs of property names whose normal forms meet each other, fid and geom.
PropertyPairs ==
  { << << "-", "g", "e", "o", "m" >>, << "-", "f", "i", "d" >> >>,
    << << "a", " ", "b" >>, << "a", "-", "b" >> >>,
    << << "a", "-", "b" >>, << "-", "g", "e", "o", "m" >> >> }

GeometryNames == { GEOM, << "s", "h", "p" >> }

\* s with x placed at position k
InsertAt(s, k, x) == SubSeq(s, 1, k - 1) \o << x >> \o SubSeq(s, k, Len(s))

\* Readable files of two properties and a geometry column at any ordinal.
ColumnPayloads ==
  { Payload(None, TRUE, None,
            InsertAt(<< Col(q[1][1], "VARCHAR"), Col(q[1][2], "VARCHAR") >>, q[3],
                     Col(q[2], "GEOMETRY"))) :
      q \in PropertyPairs \X GeometryNames \X (1 .. 3) }

NextColumns ==
  \/ \E id \in Ids, p \in ColumnPayloads : UploadFile(id, p)
  \/ Worker

SpecColumns == Init /\ [][NextColumns]_vars


\* ------------------------------------- the node-graph server's tiles

\* layer_data.fields of the layer the tile is asked for: empty when the
\* layer names no field list.
FieldLists == { << >>, << "n" >> }

\* What the tile query returns once it runs.
QueryResults == { "data", "none", "error" }

SetCall(t, c) == tile_call' = [ tile_call EXCEPT ![t] = c ]

NodeFrame == UNCHANGED << core, otherThanNode >>

\* TileService::generate_tile calls Database::generate_tile for a layer.
CallGenerateTile(t, fields) ==
  /\ tile_call[t].pc = "idle"
  /\ SetCall(t, [ pc |-> "lock", fields |-> fields, result |-> "" ])
  /\ UNCHANGED conn
  /\ NodeFrame

\* fields.is_empty(): get_non_geometry_columns is called, and locks.
NeedsColumnsLock(fields) == fields = << >>

\* let conn = self.conn.lock().unwrap() of generate_tile
GenerateTileLock(t) ==
  /\ tile_call[t].pc = "lock"
  /\ conn.holder = NoThread
  /\ IF conn.poisoned
       THEN \* lock() returns Err(PoisonError): unwrap panics
            /\ SetCall(t, [ tile_call[t] EXCEPT !.pc = "panicked" ])
            /\ UNCHANGED conn
       ELSE /\ conn' = [ conn EXCEPT !.holder = t ]
            /\ SetCall(t, [ tile_call[t] EXCEPT
                              !.pc = IF NeedsColumnsLock(tile_call[t].fields)
                                       THEN "columns" ELSE "query" ])
  /\ NodeFrame

\* let conn = self.conn.lock().unwrap() of get_non_geometry_columns, called
\* with the guard of generate_tile alive: the thread locks a mutex it holds.
\* std::sync::Mutex leaves the outcome open but for this: the call does not
\* return; it blocks for ever or panics (the guard is dropped on unwinding
\* and the mutex is poisoned).
GetNonGeometryColumnsLock(t) ==
  /\ tile_call[t].pc = "columns"
  /\ conn.holder = t
  /\ \/ /\ SetCall(t, [ tile_call[t] EXCEPT !.pc = "blocked" ])
        /\ UNCHANGED conn
     \/ /\ SetCall(t, [ tile_call[t] EXCEPT !.pc = "panicked" ])
        /\ conn' = [ holder |-> NoThread, poisoned |-> TRUE ]
  /\ NodeFrame

\* prepare and query_row; the guard drops when generate_tile returns.
RunTileQuery(t, r) ==
  /\ tile_call[t].pc = "query"
  /\ conn.holder = t
  /\ SetCall(t, [ tile_call[t] EXCEPT !.pc = "done", !.result = r ])
  /\ conn' = [ conn EXCEPT !.holder = NoThread ]
  /\ NodeFrame

\* The request is answered (a panicked task answers nothing) and the thread
\* serves the next one.
NextRequest(t) ==
  /\ tile_call[t].pc \in { "done", "panicked" }
  /\ SetCall(t, NoTileCall)
  /\ UNCHANGED conn
  /\ NodeFrame

NodeStep(t) ==
  \/ \E fields \in FieldLists : CallGenerateTile(t, fields)
  \/ GenerateTileLock(t)
  \/ GetNonGeometryColumnsLock(t)
  \/ \E r \in QueryResults : RunTileQuery(t, r)
  \/ NextRequest(t)

NextNode == \E t \in Threads : NodeStep(t)

SpecNode == Init /\ [][NextNode]_vars /\ \A t \in Threads : WF_vars(NodeStep(t))


\* ================================================================ claims

StatusEdges ==
  { << "absent", "uploaded" >>, << "absent", "failed" >>,
    << "uploaded", "processing" >>,
    << "processing", "ready" >>, << "processing", "failed" >> }

\* C1: the status of a File Record changes only along
\* uploaded -> processing -> ready or uploaded -> processing -> failed: it never
\* moves backward, ready and failed are never left, and ready is only reached
\* from processing.
C1_StatusMonotone ==
  [][ \A id \in Ids :
        \/ files'[id].status = files[id].status
        \/ << files[id].status, files'[id].status >> \in StatusEdges ]_vars

\* C1 witness: one record went uploaded -> processing -> ready and another was
\* failed by the reconciler after a process stop.
C1_Witness ==
  \E a, b \in Ids :
    /\ files[a].status = "ready"
    /\ files[b].status = "failed"
    /\ files[b].error = Some(PROCESSING_RECONCILIATION_ERROR)

RowsOf(id) == { r \in published : r.file_id = id }

\* C2: every row of published_files references a File Record with
\* is_public = true, and every File Record with is_public = true has exactly
\* one row in published_files.
C2_PublicationInvariant ==
  /\ \A r \in published : files[r.file_id].is_public
  /\ \A id \in Ids : files[id].is_public => Cardinality(RowsOf(id)) = 1

\* C2 witness: one file is registered while the last request, an unpublish of
\* another file, succeeded.
C2_Witness ==
  /\ published # { }
  /\ resp.op = "unpublish"
  /\ resp.code = 200
  /\ \E r \in published : r.file_id # resp.id

\* The slug a publish request asks for, after validate_slug.
EffectiveSlug(req) ==
  ValidateSlug(IF IsSome(req.slug) THEN Unwrap(req.slug) ELSE IdString(req.id)).slug

\* The publish request was for a ready file with a valid slug.
Publishable(a) ==
  \/ a.resp.code = 200
  \/ a.resp.code = 409 /\ a.resp.info # Some("File is not ready for publishing")
  \/ a.resp.code = 400 /\ a.resp.info = Some("Slug already in use")

AlreadyPublished(r) ==
  r.code = 409 /\ r.info # Some("File is not ready for publishing")

SlugTaken(r) == r.code = 400 /\ r.info = Some("Slug already in use")

Raced(c, d) ==
  /\ c # d
  /\ race = "on"
  /\ answered[c] # NoAnswer
  /\ answered[d] # NoAnswer
  /\ Publishable(answered[c])
  /\ Publishable(answered[d])
  /\ \/ answered[c].req.id = answered[d].req.id
     \/ EffectiveSlug(answered[c].req) = EffectiveSlug(answered[d].req)

\* When one of two racing requests succeeded, the other failed: with
\* SlugTaken when the files differ, with AlreadyPublished when it is the same
\* file under another slug, with either when both the file and the slug are
\* the same.
RaceHasOneWinner ==
  \A c, d \in Clients :
    Raced(c, d) /\ answered[c].resp.code = 200 =>
      /\ answered[d].resp.code # 200
      /\ IF answered[c].req.id # answered[d].req.id
           THEN SlugTaken(answered[d].resp)
           ELSE IF EffectiveSlug(answered[c].req) # EffectiveSlug(answered[d].req)
             THEN AlreadyPublished(answered[d].resp)
             ELSE AlreadyPublished(answered[d].resp) \/ SlugTaken(answered[d].resp)

\* Two racing requests never both fail.
RaceNotBothFail ==
  \A c, d \in Clients :
    Raced(c, d) => answered[c].resp.code = 200 \/ answered[d].resp.code = 200

C4_TableNameIffReady ==
  \A id \in Ids :
    files[id].status # "absent" =>
      (IsSome(files[id].table_name) <=> files[id].status = "ready")

\* C4 (amended): table_name is null while the record is uploaded, and for a
\* record rejected by the validator or whose table could not be created; it is
\* the name of the per-dataset table once the record is ready.  It is already
\* set while the record is processing, and stays set on a record that failed
\* after its table was created.
C4_TableNameAmended ==
  \A id \in Ids :
    /\ files[id].status = "uploaded" => files[id].table_name = None
    /\ files[id].status = "ready" => files[id].table_name = Some(TableName(id))
    /\ ( /\ files[id].status = "failed"
         /\ files[id].error \in { InvalidPayload.validation,
                                  Some("Spatial import failed") } )
       => files[id].table_name = None

\* C4 witness: a ready record, and a failed record that kept its table_name.
C4_Witness ==
  \E a, b \in Ids :
    /\ files[a].status = "ready"
    /\ files[b].status = "failed"
    /\ IsSome(files[b].table_name)

HasColumnNamed(t, name) == \E k \in DOMAIN t : t[k].name = name

\* C5: a ready File Record has a non-null table_name naming a per-dataset table
\* that exists and has a fid column and a geom column.
C5_ReadyHasTable ==
  \A id \in Ids :
    files[id].status = "ready" =>
      /\ files[id].table_name = Some(TableName(id))
      /\ tables[id] # NoTable
      /\ HasColumnNamed(tables[id], FID)
      /\ HasColumnNamed(tables[id], GEOM)

\* C5 witness: a ready dataset whose geometry column, first in the source
\* under another name, is now geom.
C5_Witness ==
  \E id \in Ids :
    /\ files[id].status = "ready"
    /\ Len(tables[id]) >= 2
    /\ tables[id][2] = GeomCol

\* C6: after a failed SQL statement of the import worker the File Record never
\* ends ready: the import stops and the record ends failed with an error.
C6_FailedStatementEndsFailed ==
  \A id \in Ids :
    task[id].sql_failed =>
      /\ files[id].status # "ready"
      /\ task[id].pc = "done" =>
           files[id].status = "failed" /\ IsSome(files[id].error)

MetaOf(id) == { r \in dataset_columns : r.source_id = id }

PropertyColumns(t) ==
  { k \in DOMAIN t : ToAsciiLowercase(t[k].name) \notin { FID, GEOM } }

\* C7: for a ready File Record, dataset_columns holds exactly one row for each
\* property column of its table and no row for fid or geom.
C7_MetadataComplete ==
  \A id \in Ids :
    files[id].status = "ready" =>
      /\ \A k \in PropertyColumns(tables[id]) :
           Cardinality({ r \in MetaOf(id) :
                           r.normalized_name = ToAsciiLowercase(tables[id][k].name) }) = 1
      /\ \A r \in MetaOf(id) : r.normalized_name \notin { FID, GEOM }
      /\ Cardinality(MetaOf(id)) = Cardinality(PropertyColumns(tables[id]))

\* C7 witness: a ready dataset with two property columns, one of them renamed
\* with a collision suffix.
C7_Witness ==
  \E id \in Ids :
    /\ files[id].status = "ready"
    /\ Cardinality(MetaOf(id)) = 2
    /\ \E r \in MetaOf(id) : r.normalized_name = << "a", "_", "b", "_", "2" >>

\* [a-z_][a-z0-9_]*
MatchesIdentifier(s) ==
  /\ s # << >>
  /\ Head(s) \in Range(LowerSeq) \cup { "_" }
  /\ \A k \in DOMAIN s : s[k] \in Range(LowerSeq) \cup Range(DigitSeq) \cup { "_" }

\* C8: every normalized_name stored in dataset_columns matches [a-z_][a-z0-9_]*
\* and is not a reserved word.
C8_NormalizedNamesSafe ==
  \A r \in dataset_columns :
    MatchesIdentifier(r.normalized_name) /\ r.normalized_name \notin KEYWORDS

\* C9: the startup after a process stop leaves no File Record processing: each
\* one that was processing is failed with the reconciliation error.
C9_StartupReconciles ==
  [][ phase = "starting" /\ phase' = "serving" =>
        \A id \in Ids :
          /\ files'[id].status # "processing"
          /\ files[id].status = "processing" =>
               /\ files'[id].status = "failed"
               /\ files'[id].error = Some(PROCESSING_RECONCILIATION_ERROR) ]_vars

\* C9 witness: the server serves again and a record carries the
\* reconciliation error.
C9_Witness ==
  /\ phase = "serving"
  /\ crashes > 0
  /\ \E id \in Ids :
       /\ files[id].status = "failed"
       /\ files[id].error = Some(PROCESSING_RECONCILIATION_ERROR)

\* C10: every File Record with status failed has a non-null error message.
C10_FailedHasError ==
  \A id \in Ids : files[id].status = "failed" => IsSome(files[id].error)

\* C10 witness: a record rejected by the validator beside a record failed by
\* the import worker.
C10_Witness ==
  \E a, b \in Ids :
    /\ files[a].status = "failed"
    /\ files[a].error = InvalidPayload.validation
    /\ files[b].status = "failed"
    /\ files[b].error = Some("Failed to normalize column name")

\* C11: while the process keeps running, every File Record inserted with
\* status uploaded eventually reaches ready or failed: its import task is
\* never cancelled and ends by writing a terminal status.
C11_UploadedEndsTerminal ==
  \A id \in Ids :
    (files[id].status = "uploaded") ~> (files[id].status \in { "ready", "failed" })

\* C11 witness: two tasks ran to their end, one writing ready, the other failed.
C11_Witness ==
  \E a, b \in Ids :
    /\ task[a].pc = "done" /\ files[a].status = "ready"
    /\ task[b].pc = "done" /\ files[b].status = "failed"

\* A Published Registration with this slug exists and its file is public.
Live(slug) == \E r \in published : r.slug = slug /\ files[r.file_id].is_public

PublicTileNotFound == Resp("public_tile", 0, 404, Some("Public tile not found"))

\* C12: whenever get_public_tile can run, its answer to a request (with
\* coordinates that pass the pre-flight) is a tile only if a Published
\* Registration with the slug exists at that moment and the file is public;
\* for an unknown slug, and for a slug as soon as unpublish released it, the
\* answer is the same 404 "Public tile not found".
C12_PublicTileOnlyWhilePublished ==
  CanLock =>
    /\ \A slug \in PublicSlugs, c \in TileInputs :
         ValidateTileCoords(c[1], c[2], c[3]) =>
           LET r == GetPublicTile(files, published, tables, dataset_columns,
                                  slug, c[1], c[2], c[3])
           IN /\ r.code = 200 => Live(slug)
              /\ ~ Live(slug) => r = PublicTileNotFound
    /\ \A reg \in published :
         LET o == UnpublishFile(files, published, reg.file_id)
         IN o.resp.code = 200 =>
              GetPublicTile(o.files, o.published, tables, dataset_columns,
                            reg.slug, 0, 0, 0) = PublicTileNotFound

\* C12 witness: a public tile request was answered 404 while another slug is
\* registered and a ready file is not public.
C12_Witness ==
  /\ resp = PublicTileNotFound
  /\ published # { }
  /\ \E id \in Ids : files[id].status = "ready" /\ ~ files[id].is_public

\* The response comes from a query on the per-dataset table.
ReadsTable(r) ==
  \/ r.code \in { 200, 500 }
  \/ r.op = "feature" /\ r.code = 404 /\ r.info = Some("Feature not found")

Refused(r) == r.code = 409 /\ ~ ReadsTable(r)

\* C13: whenever the handlers can run, a preview, tile (with coordinates that
\* pass the pre-flight), feature or schema request for a File Record whose
\* status is uploaded, processing or failed is answered 409 and does not read
\* the per-dataset table, also when the table is there and table_name is
\* recorded.
C13_NotReadyIsRefused ==
  \A id \in Ids :
    CanLock /\ files[id].status \in { "uploaded", "processing", "failed" } =>
      /\ Refused(GetPreviewMeta(files, tables, id))
      /\ \A c \in TileInputs :
           ValidateTileCoords(c[1], c[2], c[3]) =>
             Refused(GetTile(files, tables, dataset_columns, id, c[1], c[2], c[3]))
      /\ \A found \in BOOLEAN :
           Refused(GetFeatureProperties(files, tables, dataset_columns, id, found))
      /\ Refused(GetFileSchema(files, id))

\* C13 witness: a tile request was answered 409 for a record still processing
\* whose table exists and whose table_name is recorded.
C13_Witness ==
  /\ resp.op = "tile"
  /\ resp.code = 409
  /\ files[resp.id].status = "processing"
  /\ IsSome(files[resp.id].table_name)
  /\ tables[resp.id] # NoTable

\* 0 <= z <= 22, 0 <= x < 2^z, 0 <= y < 2^z
InBounds(z, x, y) ==
  /\ 0 <= z
  /\ z <= 22
  /\ 0 <= x
  /\ x < 2 ^ z
  /\ 0 <= y
  /\ y < 2 ^ z

InvalidTileCoords(r) == r.code = 400 /\ r.info = Some("Invalid tile coordinates")

\* C19: a private or public tile request is answered 400 "Invalid tile
\* coordinates" exactly when (z, x, y) is outside 0 <= z <= 22, 0 <= x < 2^z,
\* 0 <= y < 2^z, whatever the file id or slug, known or not.
C19_TileCoordsChecked ==
  \A c \in TileInputs :
    phase = "serving" /\ (InBounds(c[1], c[2], c[3]) => lock = Free) =>
      /\ \A id \in Ids :
           InvalidTileCoords(GetTile(files, tables, dataset_columns, id,
                                     c[1], c[2], c[3]))
             <=> ~ InBounds(c[1], c[2], c[3])
      /\ \A slug \in PublicSlugs :
           InvalidTileCoords(GetPublicTile(files, published, tables, dataset_columns,
                                           slug, c[1], c[2], c[3]))
             <=> ~ InBounds(c[1], c[2], c[3])

\* C19 witness: a tile request for an id without File Record was answered 400.
C19_Witness ==
  /\ resp.op = "tile"
  /\ InvalidTileCoords(resp)
  /\ files[resp.id].status = "absent"

\* The slug validate_slug accepts for a request, or the error it gives.
Checked(id, requested) ==
  ValidateSlug(IF IsSome(requested) THEN Unwrap(requested) ELSE IdString(id))

\* C14: a publish request for a file that already has a registration, with any
\* slug the slug rules accept (a new one, its own, another file's), is answered
\* 409 naming the registered slug, and files and published_files stay as they
\* were.
C14_RepublishConflicts ==
  CanLock =>
    \A id \in Ids, requested \in PublishSlugs :
      LET o == PublishFile(files, published, id, requested)
          existing == ExistingSlug(published, id)
      IN IsSome(existing) /\ Checked(id, requested).ok =>
           /\ o.resp.code = 409
           /\ o.resp.info = Some(<< "File already published", existing >>)
           /\ o.files = files
           /\ o.published = published

\* C14 witness: a published file's publish request was answered 409 naming its
\* slug while another file holds another slug.
C14_Witness ==
  /\ resp.op = "publish"
  /\ resp.code = 409
  /\ files[resp.id].is_public
  /\ resp.info = Some(<< "File already published", ExistingSlug(published, resp.id) >>)
  /\ \E r \in published : r.file_id # resp.id

\* C15: a publish request for a ready file without registration, with an
\* accepted slug that another file holds, is answered 400 "Slug already in use",
\* and files and published_files stay as they were.
C15_TakenSlugRefused ==
  CanLock =>
    \A id \in Ids, requested \in PublishSlugs :
      LET o == PublishFile(files, published, id, requested)
          v == Checked(id, requested)
      IN ( /\ files[id].status = "ready"
           /\ ExistingSlug(published, id) = None
           /\ v.ok
           /\ \E r \in published : r.slug = v.slug /\ r.file_id # id ) =>
           /\ o.resp.code = 400
           /\ o.resp.info = Some("Slug already in use")
           /\ o.files = files
           /\ o.published = published

C18_PublishNeedsReady ==
  CanLock =>
    \A id \in Ids, requested \in PublishSlugs :
      LET o == PublishFile(files, published, id, requested) IN
      files[id].status \in { "uploaded", "processing", "failed" } =>
        /\ o.resp.code = 409
        /\ o.resp.info = Some("File is not ready for publishing")
        /\ o.published = published
        /\ ExistingSlug(o.published, id) = None
        /\ o.files = files
        /\ ~ o.files[id].is_public

\* C18 witness: the publish request for a file still being imported was
\* answered 409 while the other file is failed.
C18_Witness ==
  /\ resp.op = "publish"
  /\ resp.code = 409
  /\ files[resp.id].status = "processing"
  /\ \E id \in Ids : files[id].status = "failed"

\* The File Record of a file the validator rejected.
RejectedRecord(id) ==
  files[id].status = "failed" /\ files[id].error = InvalidPayload.validation

\* C20: an upload the validator rejects, for an id without File Record, inserts
\* exactly one File Record, failed with the validation message, answers 400
\* with that message and starts no import task; afterwards the record stays
\* as it is and never has a task.
C20_RejectedUploadIsFailed ==
  /\ [][ \A id \in Ids, p \in Payloads :
           IsSome(p.validation) /\ files[id].status = "absent" /\ UploadFile(id, p) =>
             /\ files' = [ files EXCEPT ![id] = FileRow("failed", p.validation) ]
             /\ resp' = Resp("upload", id, 400, p.validation)
             /\ task' = task ]_vars
  /\ [][ \A id \in Ids : RejectedRecord(id) => files'[id] = files[id] ]_vars
  /\ [] ( \A id \in Ids : RejectedRecord(id) => task[id] = NoTask )

\* C20 witness: a rejected upload was answered 400 with the message its failed
\* record holds, and the record is still failed after a process stop and
\* restart.
C20_Witness ==
  /\ resp.op = "upload"
  /\ resp.code = 400
  /\ RejectedRecord(resp.id)
  /\ resp.info = files[resp.id].error
  /\ task[resp.id] = NoTask
  /\ crashes > 0
  /\ phase = "serving"

\* C21: when the bytes counted pass the cap, the upload is answered 413, the
\* file written so far is removed, and no File Record is inserted and no
\* import task is started; a body whose size equals the cap is stored whole and
\* goes on to the File Record.
C21_OverCapRefused ==
  /\ [][ Streaming /\ stream.chunks # << >> /\ StreamChunk =>
           IF stream.size + Head(stream.chunks) > max_size
             THEN /\ resp'.code = 413
                  /\ stream'.written = None
                  /\ files' = files
                  /\ task' = task
             ELSE /\ resp' = NoResp
                  /\ stream'.written = Some(stream.size + Head(stream.chunks)) ]_vars
  /\ [] ( resp.op = "upload" /\ resp.code = 413 =>
            /\ files[resp.id].status = "absent"
            /\ task[resp.id] = NoTask
            /\ stream.written = None )
  /\ [] ( resp.op = "upload" /\ resp.code \in { 201, 400 } /\ resp.id = stream.id =>
            /\ stream.size <= max_size
            /\ stream.written = Some(stream.size) )

\* C21 witness: a body was refused at its second chunk, after a first chunk
\* had been written.
C21_Witness ==
  /\ resp.op = "upload"
  /\ resp.code = 413
  /\ stream.size > max_size
  /\ stream.written = None
  /\ \E id \in Ids : files[id].status = "uploaded" /\ id # resp.id

\* The rows of the sessions table for a session id.
SessionRows(id) == { r \in sessions : r.id = SessionIdString(id) }

C23_ExpiredInvisibleKept ==
  \A id \in SessionIds :
    kept[id] # None =>
      LET got == LoadRecord(sessions, now, id)
          expiry_date == Unwrap(kept[id]).expiry_date
      IN /\ expiry_date < now => got = None
         /\ SessionRows(id) # { }
         /\ ~ (expiry_date < now) => got # None

\* C24: every failed call of authenticate performs exactly one bcrypt
\* verification: against the stored hash when the username is known, against
\* the process-wide dummy hash when it is not. The dummy hash is computed at
\* most once: once set it never changes and no later call computes a hash.
\* Both failures return the same InvalidCredentials error.
C24_OneVerificationPerFailure ==
  /\ [](\A username \in UsernameInputs, password \in PasswordInputs, salt \in Salts :
          LET a == Authenticate(users, dummy_hash, salt, username, password)
              found == UsersNamed(users, username)
          IN a.result # "Ok" =>
               /\ a.result = "InvalidCredentials"
               /\ Len(a.verified) = 1
               /\ IF found # { }
                    THEN /\ a.verified[1] \in { u.password_hash : u \in found }
                         /\ a.hashed = 0
                         /\ a.dummy = dummy_hash
                    ELSE /\ a.verified[1] = Unwrap(a.dummy)
                         /\ a.hashed = IF dummy_hash = None THEN 1 ELSE 0
                         /\ dummy_hash # None => a.dummy = dummy_hash)
  /\ [](auth_resp.op \in { "authenticate", "login" } /\ auth_resp.result # "Ok"
          => /\ auth_resp.result = "InvalidCredentials"
             /\ Len(auth_resp.verified) = 1)
  /\ [][dummy_hash # None => dummy_hash' = dummy_hash]_vars

\* A call for an unknown username failed against the dummy hash an earlier
\* call had computed, while an account exists.
C24_Witness ==
  /\ auth_resp.op = "authenticate"
  /\ auth_resp.result = "InvalidCredentials"
  /\ auth_resp.hashed = 0
  /\ users # { }
  /\ dummy_hash # None
  /\ auth_resp.verified = << Unwrap(dummy_hash) >>

\* The login names an unknown user or carries a wrong password.
BadCredentials(username, password) ==
  \/ UsersNamed(users, username) = { }
  \/ \E u \in UsersNamed(users, username) : ~ VerifyPassword(password, u.password_hash)

\* C25: a login with an unknown username and a login with a wrong password
\* are both answered 401, and neither creates a session.
C25_FailedLoginUnauthorized ==
  [][\A username \in UsernameInputs, password \in PasswordInputs, salt \in Salts,
        session_id \in SessionIds :
       Login(username, password, salt, session_id)
         /\ BadCredentials(username, password)
       => auth_resp'.code = 401 /\ sessions' = sessions]_vars

\* The part of C25 about sessions: a failed login creates none.
C25_FailedLoginNoSession ==
  [][\A username \in UsernameInputs, password \in PasswordInputs, salt \in Salts,
        session_id \in SessionIds :
       Login(username, password, salt, session_id)
         /\ BadCredentials(username, password)
       => auth_resp'.code # 200 /\ sessions' = sessions]_vars

\* An init request left the queue in this step: init_system ran under the mutex.
InitHandled(c) == init_waiting[c] # NoInit /\ init_waiting'[c] = NoInit

\* C26: among init requests with valid passwords, concurrent or repeated,
\* exactly one succeeds: the one handled while the system is not initialized
\* creates the admin account and sets the initialized flag; every one handled
\* afterwards is rejected and changes nothing. There is never more than one
\* user, the flag is set exactly when the user exists, and once set it stays.
C26_InitOnce ==
  /\ [](/\ Cardinality(users) <= 1
        /\ IsInitialized(system_settings) <=> users # { }
        /\ \A u \in users : u.role = "admin")
  /\ [][IsInitialized(system_settings) => IsInitialized(system_settings')]_vars
  /\ [][\A c \in Clients :
          InitHandled(c) =>
            /\ auth_resp'.op = "init"
            /\ IF IsInitialized(system_settings)
                 THEN /\ auth_resp'.code = 409
                      /\ users' = users
                      /\ system_settings' = system_settings
                 ELSE /\ auth_resp'.code = 200
                      /\ Cardinality(users') = 1
                      /\ \A u \in users' :
                           /\ u.username = init_waiting[c].username
                           /\ VerifyPassword(init_waiting[c].password, u.password_hash)
                      /\ IsInitialized(system_settings')]_vars

\* Two requests passed validation; one was handled and rejected while the
\* other still waits, and one account exists.
C26_Witness ==
  /\ auth_resp.op = "init"
  /\ auth_resp.code = 409
  /\ Cardinality(users) = 1
  /\ \E c \in Clients : init_waiting[c] # NoInit

\* The diagnostics of install attempts in an error list, as attempt numbers.
AttemptsIn(errors) ==
  [ k \in 1 .. Len(SelectSeq(errors, LAMBDA e : e.of = "install")) |->
      SelectSeq(errors, LAMBDA e : e.of = "install")[k].attempt ]

\* The thread holds the guard and has passed the recheck.
InInstallLoop(t) == loader[t].pc \in { "install", "load", "sleep" }

\* C27: a call of ensure_spatial_extension runs at most 5 INSTALL attempts
\* and, once past the guard, always returns; it returns Ok only from a LOAD
\* that succeeded, and an error only when the plain load failed, no local
\* file could be loaded and all 5 attempts failed. The error carries one
\* diagnostic per failed attempt, numbered 1 to 5 in order, and 4 sleeps were
\* taken: none follows the last attempt.
C27_BoundedInstall ==
  /\ [](\A t \in Threads :
          /\ loader[t].installs <= SPATIAL_INSTALL_MAX_ATTEMPTS
          /\ loader[t].sleeps < SPATIAL_INSTALL_MAX_ATTEMPTS
          /\ loader[t].sleeps <= loader[t].installs
          /\ loader[t].pc = "done" /\ loader[t].result = "Err" =>
               /\ loader[t].installs = SPATIAL_INSTALL_MAX_ATTEMPTS
               /\ loader[t].rechecked = "failed"
               /\ AttemptsIn(loader[t].errors)
                    = [ k \in 1 .. SPATIAL_INSTALL_MAX_ATTEMPTS |-> k ]
               /\ loader[t].sleeps = SPATIAL_INSTALL_MAX_ATTEMPTS - 1
          /\ loader[t].pc = "done" => loader[t].result \in { "Ok", "Err" })
  /\ [][\A t \in Threads :
          loader'[t].pc = "done" /\ loader[t].pc # "done" /\ loader'[t].result = "Ok"
            => \/ loader[t].pc \in { "fast", "recheck", "load" } /\ installed
               \/ loader[t].pc \in { "local", "post_local" }]_vars
  /\ \A t \in Threads : (install_lock = t) ~> (loader[t].pc = "done")

\* A call failed after five attempts.
C27_Witness ==
  \E t \in Threads :
    /\ loader[t].pc = "done"
    /\ loader[t].result = "Err"
    /\ Len(loader[t].errors) >= SPATIAL_INSTALL_MAX_ATTEMPTS

\* The thread is past lock.lock() and has not returned.
HoldsGuard(t) == loader[t].pc \in { "recheck", "post_local", "install", "load", "sleep" }

\* C28: at most one thread at a time is inside the INSTALL retry loop, and
\* INSTALL runs only there, under the guard. A thread that took the guard,
\* having waited for it or not, first retries the plain LOAD; when that LOAD
\* succeeds it returns Ok without having run INSTALL, and it enters the loop
\* only after that LOAD failed.
C28_InstallSerialized ==
  /\ [](\A t1 \in Threads, t2 \in Threads :
          /\ HoldsGuard(t1) => install_lock = t1
          /\ InInstallLoop(t1) /\ InInstallLoop(t2) => t1 = t2
          /\ InInstallLoop(t1) => loader[t1].rechecked = "failed"
          /\ loader[t1].installs > 0 => loader[t1].rechecked = "failed"
          /\ loader[t1].rechecked = "loaded" =>
               /\ loader[t1].pc = "done"
               /\ loader[t1].result = "Ok"
               /\ loader[t1].installs = 0)
  /\ [][\A t \in Threads :
          /\ loader'[t].installs > loader[t].installs
               => install_lock = t /\ InInstallLoop(t)
          /\ loader[t].pc = "lock" /\ loader'[t].pc # "lock"
               => loader'[t].pc = "recheck" /\ install_lock = NoThread]_vars

\* A thread waited for the guard while another thread installed, then took
\* it, loaded the extension and returned without an INSTALL of its own.
C28_Witness ==
  \E t \in Threads :
    /\ loader[t].waited
    /\ loader[t].rechecked = "loaded"
    /\ loader[t].installs = 0
    /\ loader[t].result = "Ok"

\* C29: whenever normalize_column_name(s) is not null, normalizing the result
\* again returns the same name.
C29_NormalizeIdempotent ==
  norm.applied = 2 => norm.twice = norm.once

\* A keyword with surrounding separators was normalized twice: the first
\* pass changed it and prefixed it, the second left it.
C29_Witness ==
  /\ norm.applied = 2
  /\ norm.name = << "_", "_", "b", "y", "_", "_" >>
  /\ norm.once = Some(ColPrefix \o << "b", "y" >>)
  /\ norm.twice = norm.once

\* The value is a NULL blob or an empty blob.
NoFeatures(value) == value = None \/ value = Some(<< >>)

\* The tile request reaches the query and the query runs.
QueryRuns(r) == r.code = 200

\* C30: for a ready dataset and valid coordinates, a tile query that returns
\* a NULL blob or an empty blob is answered 200 with an empty body and the MVT
\* content type, on the private and on the public route; 500 is answered only
\* when the query fails.
C30_EmptyTileIsOk ==
  CanLock =>
    \A c \in BodyTileInputs, value \in BlobInputs :
      ValidateTileCoords(c[1], c[2], c[3]) =>
        /\ \A id \in Ids :
             LET r == GetTile(files, tables, dataset_columns, id, c[1], c[2], c[3])
                 t == TileReply(r, value)
             IN files[id].status = "ready" =>
                  /\ QueryRuns(r) /\ NoFeatures(value)
                       => t = Reply(200, MvtContentType, << >>)
                  /\ t.code = 500 => ~ QueryRuns(r)
        /\ \A slug \in PublicSlugs :
             LET r == GetPublicTile(files, published, tables, dataset_columns,
                                    slug, c[1], c[2], c[3])
                 t == TileReply(r, value)
             IN /\ QueryRuns(r) /\ NoFeatures(value)
                     => t = Reply(200, MvtContentType, << >>)
                /\ t.code = 500 => ~ QueryRuns(r)

\* The part of C30 about an empty blob: it is answered 200 with an empty body
\* and the MVT content type, and a query that does not run is answered 500.
C30_EmptyBlobIsOk ==
  CanLock =>
    \A c \in BodyTileInputs, id \in Ids :
      ValidateTileCoords(c[1], c[2], c[3]) /\ files[id].status = "ready" =>
        LET r == GetTile(files, tables, dataset_columns, id, c[1], c[2], c[3])
        IN /\ QueryRuns(r) => TileReply(r, Some(<< >>)) = Reply(200, MvtContentType, << >>)
           /\ ~ QueryRuns(r) => TileReply(r, Some(<< >>)).code = 500

\* A tile request for a ready dataset was answered 200 with an empty body.
C30_EmptyBlobReached ==
  /\ resp.op = "tile"
  /\ files[resp.id].status = "ready"
  /\ tile_reply = Reply(200, MvtContentType, << >>)

\* The lower-cased leaf names of the file entries, as a set.
LeafNames(archive) ==
  { ToAsciiLowercase(Unwrap(FileName(archive[k]))) :
      k \in { j \in DOMAIN archive : IsFile(archive[j]) /\ IsSome(FileName(archive[j])) } }

\* Some leaf name ends in .shp.
HasShp(archive) == \E n \in LeafNames(archive) : EndsWith(n, DotShp)

\* Some .shp leaf has .shx and .dbf leaves with its stem.
HasShapefile(archive) ==
  \E n \in LeafNames(archive) :
    /\ EndsWith(n, DotShp)
    /\ StripSuffix(n, DotShp) \o DotShx \in LeafNames(archive)
    /\ StripSuffix(n, DotShp) \o DotDbf \in LeafNames(archive)

\* C31: validate_shapefile_zip accepts a readable archive exactly when some
\* file entry's lower-cased leaf name ends in .shp and the archive has .shx
\* and .dbf file entries with the same lower-cased stem; otherwise the error
\* is 'Missing .shp file in zip' when no entry ends in .shp and 'Shapefile zip
\* must include .shp/.shx/.dbf with the same name' when one does.
C31_ShapefileZipAccepted ==
  zip.validated /\ zip.archive # Unreadable =>
    /\ zip.result = None <=> HasShapefile(zip.archive)
    /\ ~ HasShp(zip.archive) => zip.result = Some(MissingShp)
    /\ HasShp(zip.archive) /\ ~ HasShapefile(zip.archive)
         => zip.result = Some(MissingCompanions)

\* An archive was accepted whose parts differ in case and of which one lies
\* in a directory.
C31_Witness ==
  /\ zip.validated
  /\ zip.result = None
  /\ zip.archive = << << "A", ".", "S", "H", "P" >>,
                      << "a", ".", "s", "h", "x" >>,
                      << "d", "/", "a", ".", "D", "b", "f" >> >>

\* C32: reconcile_processing_files changes only File Records whose status is
\* processing: every other record keeps all its fields, running it on its own
\* result changes nothing, and the startup that runs it leaves every record
\* that is not processing, the registrations, the tables and the column
\* metadata as they were, so a dataset that was ready is answered as before.
C32_ReconcileFrame ==
  /\ [](LET once == ReconcileProcessingFiles(files) IN
          /\ \A id \in Ids :
               /\ files[id].status # "processing" => once[id] = files[id]
               /\ files[id].status = "ready" =>
                    /\ GetPreviewMeta(once, tables, id) = GetPreviewMeta(files, tables, id)
                    /\ GetTile(once, tables, dataset_columns, id, 0, 0, 0)
                         = GetTile(files, tables, dataset_columns, id, 0, 0, 0)
          /\ ReconcileProcessingFiles(once) = once)
  /\ [][phase = "starting" /\ phase' = "serving" =>
          /\ \A id \in Ids : files[id].status # "processing" => files'[id] = files[id]
          /\ published' = published
          /\ tables' = tables
          /\ dataset_columns' = dataset_columns
          /\ disk' = disk]_vars

\* After a restart one record was failed by the reconciler while a dataset
\* that was ready before is ready, has its table and is served.
C32_Witness ==
  /\ phase = "serving"
  /\ crashes > 0
  /\ \E a \in Ids, b \in Ids :
       /\ files[a].status = "ready"
       /\ tables[a] # NoTable
       /\ files[b].status = "failed"
       /\ files[b].error = Some(PROCESSING_RECONCILIATION_ERROR)
       /\ GetTile(files, tables, dataset_columns, a, 0, 0, 0).code = 200

\* C34: every exit of publish and unpublish after BEGIN TRANSACTION, error
\* returns included, has run COMMIT or ROLLBACK: whenever a request can take
\* the connection lock the connection is outside a transaction.
C34_TransactionsClosed ==
  CanLock => ~ txn

\* The part of C34 about the exits without an engine error: from a
\* connection outside a transaction, publish and unpublish whose statements
\* all succeed leave it outside a transaction and change the catalog as
\* PublishFile and UnpublishFile say.
C34_ClosedWithoutEngineError ==
  CanLock =>
    \A id \in Ids :
      /\ \A requested \in RaceSlugs :
           LET o == PublishStatements(files, published, FALSE, id, requested, "none")
               b == PublishFile(files, published, id, requested)
           IN ~ o.txn /\ o.files = b.files /\ o.published = b.published
              /\ o.resp.code = b.resp.code
      /\ LET o == UnpublishStatements(files, published, FALSE, id, "none")
             b == UnpublishFile(files, published, id)
         IN ~ o.txn /\ o.files = b.files /\ o.published = b.published
            /\ o.resp.code = b.resp.code

\* The import task spawned for id has not returned and was not lost with a
\* stopped process.
TaskAlive(id) == task[id].pc \notin { "none", "done" }

\* C33: while the server serves, after the startup reconciliation, every
\* File Record with status processing has a live import task, one that has
\* marked the record and has not yet written its terminal status.
C33_ProcessingHasTask ==
  phase = "serving" =>
    \A id \in Ids : files[id].status = "processing" => TaskAlive(id)

\* C33 witness: after a restart that failed an orphaned record, another
\* record is processing and its task is in the middle of the import.
C33_Witness ==
  /\ phase = "serving"
  /\ \E a, b \in Ids :
       /\ files[a].status = "failed"
       /\ files[a].error = Some(PROCESSING_RECONCILIATION_ERROR)
       /\ files[b].status = "processing"
       /\ lock = Holder(b)

\* The part of C33 about the end of the task: while the process keeps
\* running, a processing record reaches ready or failed.
C33_ProcessingEndsTerminal ==
  \A id \in Ids :
    (files[id].status = "processing") ~> (files[id].status \in { "ready", "failed" })

\* The property columns of the table of id: every column but the leading
\* fid and the geometry column.
PropertyOrdinals(id) ==
  { k \in DOMAIN tables[id] : k # 1 /\ tables[id][k].type # "GEOMETRY" }

ColumnName(id, k) == ToAsciiLowercase(tables[id][k].name)

GeometryOrdinal(id) ==
  CHOOSE k \in DOMAIN tables[id] : tables[id][k].type = "GEOMETRY"

\* The k-th candidate for a normal form: n, n_2, n_3, ...
Candidate(n, k) == IF k = 1 THEN n ELSE n \o << "_" >> \o DecimalString(k)

\* The name is taken when the column at the ordinal is named: by fid, by geom
\* when the geometry column comes before, or by an earlier property.
Taken(id, ordinal, name) ==
  \/ name = FID
  \/ name = GEOM /\ GeometryOrdinal(id) < ordinal
  \/ \E r \in ColumnsMeta(dataset_columns, id) :
       r.ordinal < ordinal /\ r.normalized_name = name

MaxSuffix == 4

\* C35: after a successful import the property columns of the table carry
\* pairwise distinct names, none of them fid or geom, wherever the geometry
\* column stands; each is recorded under that name, and a name whose first
\* candidate is taken carries the first free suffix _2, _3, ...
C35_ColumnNamesDistinct ==
  \A id \in Ids :
    files[id].status = "ready" =>
      /\ \A k \in PropertyOrdinals(id) : ColumnName(id, k) \notin { FID, GEOM }
      /\ \A j, k \in PropertyOrdinals(id) :
           j # k => ColumnName(id, j) # ColumnName(id, k)
      /\ \A k \in PropertyOrdinals(id) :
           \E r \in ColumnsMeta(dataset_columns, id) :
             r.ordinal = k /\ r.normalized_name = ColumnName(id, k)
      /\ \A r \in ColumnsMeta(dataset_columns, id) :
           /\ r.ordinal \in PropertyOrdinals(id)
           /\ \E k \in 1 .. MaxSuffix :
                /\ r.normalized_name =
                     Candidate(InitialNormalized(r.original_name, r.ordinal), k)
                /\ \A j \in 1 .. (k - 1) :
                     Taken(id, r.ordinal,
                           Candidate(InitialNormalized(r.original_name, r.ordinal), j))

\* C35 witness: two finished imports, the geometry column first in one and
\* last in the other; in one a property took the suffix _2 because geom
\* was taken, in the other because an earlier property had the name.
C35_Witness ==
  \E a, b \in Ids :
    /\ files[a].status = "ready" /\ files[b].status = "ready"
    /\ GeometryOrdinal(a) = 2 /\ GeometryOrdinal(b) = 4
    /\ \E r \in ColumnsMeta(dataset_columns, a) :
         r.normalized_name = << "g", "e", "o", "m", "_", "2" >>
    /\ \E r \in ColumnsMeta(dataset_columns, b) :
         r.normalized_name = << "a", "_", "b", "_", "2" >>

FileNotReady == Some("File is not ready")

\* C36: every File Record with a Published Registration has status ready
\* and a table_name, and a public tile request for a registered slug is
\* never answered 'File is not ready'.
C36_PublishedIsReady ==
  \A r \in published :
    /\ files[r.file_id].status = "ready"
    /\ IsSome(files[r.file_id].table_name)
    /\ \A z \in 0 .. 1 :
         GetPublicTile(files, published, tables, dataset_columns, r.slug, z, 0, 0).info
           # FileNotReady

\* C36 witness: after a process stop and startup a registered slug is
\* served while another record is not ready.
C36_Witness ==
  /\ phase = "serving"
  /\ crashes > 0
  /\ \E r \in published, id \in Ids :
       /\ GetPublicTile(files, published, tables, dataset_columns, r.slug, 0, 0, 0).code = 200
       /\ files[id].status = "failed"

Terminal(id) == files[id].status \in { "ready", "failed" }

\* C37: once the server serves again after a process stop, every File
\* Record is ready or failed or has a live import task.
C37_NoRecordStranded ==
  phase = "serving" /\ crashes > 0 =>
    \A id \in Ids : files[id].status = "absent" \/ Terminal(id) \/ TaskAlive(id)

\* A record left uploaded without a task keeps that status in every step:
\* no handler and no later startup changes it.
C37_StrandedStaysUploaded ==
  [][ \A id \in Ids :
        phase = "serving" /\ files[id].status = "uploaded" /\ ~ TaskAlive(id) =>
          files'[id].status = "uploaded" /\ ~ TaskAlive(id)' ]_vars

\* The rest of C37: after the startup no record is processing without a task.
C37_ProcessingReconciled ==
  phase = "serving" /\ crashes > 0 =>
    \A id \in Ids : files[id].status = "processing" => TaskAlive(id)

\* A step of upload_file that got as far as storing the file.
UploadStep == uploads' = uploads + 1

\* C38: an upload leaves the stored file, the File Record, the table and the
\* column metadata of every file uploaded before as they were, also when
\* create_id returns an id in use.
C38_UploadKeepsEarlierFiles ==
  [][ UploadStep =>
        \A id \in Ids :
          files[id].status # "absent" =>
            /\ disk'[id] = disk[id]
            /\ files'[id] = files[id]
            /\ tables'[id] = tables[id]
            /\ ColumnsMeta(dataset_columns', id) = ColumnsMeta(dataset_columns, id) ]_vars

\* The part of C38 that holds: the File Record, the table and the column
\* metadata of an earlier file are left alone by every upload.
C38_UploadKeepsCatalog ==
  [][ UploadStep =>
        \A id \in Ids :
          files[id].status # "absent" =>
            /\ files'[id] = files[id]
            /\ tables'[id] = tables[id]
            /\ ColumnsMeta(dataset_columns', id) = ColumnsMeta(dataset_columns, id) ]_vars

\* C39: whenever a File Record has status failed, its table layer_<id>
\* does not exist and dataset_columns holds no row for it.
C39_FailedLeavesNothing ==
  \A id \in Ids :
    files[id].status = "failed" =>
      /\ tables[id] = NoTable
      /\ ColumnsMeta(dataset_columns, id) = { }

\* The part of C39 that holds: a record failed by the validator, or by the
\* statement that creates the table, has no table and no metadata rows.
C39_FailedBeforeTable ==
  \A id \in Ids :
    /\ files[id].status = "failed"
    /\ \/ files[id].error = InvalidPayload.validation
       \/ files[id].error = Some("Spatial import failed")
    => /\ tables[id] = NoTable
       /\ ColumnsMeta(dataset_columns, id) = { }

\* A failed record that kept its table together with metadata rows.
C39_FailedWithRows ==
  \E id \in Ids :
    /\ files[id].status = "failed"
    /\ tables[id] # NoTable
    /\ ColumnsMeta(dataset_columns, id) # { }

\* C40: Database::generate_tile never locks the connection mutex while it
\* holds it, and a tile request for a layer without a field list completes.
C40_TileCompletes ==
  /\ [](\A t \in Threads : ~ (tile_call[t].pc = "columns" /\ conn.holder = t))
  /\ \A t \in Threads :
       (tile_call[t].pc = "lock" /\ tile_call[t].fields = << >>)
         ~> (tile_call[t].pc = "done")

\* The first half of C40 alone, as a state predicate.
C40_NoRelock ==
  \A t \in Threads : ~ (tile_call[t].pc = "columns" /\ conn.holder = t)

\* A request blocks or panics only after some request without a field list
\* got to the second lock: requests with a field list do not lock twice.
C40_ExplicitFieldsLockOnce ==
  \A t \in Threads :
    tile_call[t].fields # << >> => tile_call[t].pc \notin { "columns", "blocked" }


====
